---- MODULE Spec2Model ----
(***************************************************************************)
(* Retrieval and ranking core of sec-financial-qa:                         *)
(*   EmbeddingEngine.score_metadata / search   (src/src/embedding_engine.py)*)
(*   SECDocumentProcessor.clean_and_chunk / extract_sections               *)
(*                                             (src/src/preprocessing.py)  *)
(* Scores are fixed-point numbers in hundredths (100 stands for 1.0).      *)
(* Text is a sequence of one-character strings.                            *)
(***************************************************************************)
EXTENDS Integers, Sequences, FiniteSets, TLC

VARIABLES
    \* score_metadata(chunk, query_info)
    chunk, query_info, score, score_pc,
    \* EmbeddingEngine: index, chunks_data; the last search call and its outcome
    index, chunks_data, call, results,
    \* clean_and_chunk(content, max_size) and its locals
    content, max_size, words, wi, current_chunk, current_size, chunks, chunk_pc,
    \* extract_sections(document, filing_type)
    document, sections, sect_pc,
    \* SECDocumentProcessor.run: the raw data directory, the place of the walk
    \* through it, the chunks gathered and the files written
    raw_data, ticker_i, file_i, all_chunks, run_chunks, saved, run_pc,
    \* FinancialTaxonomy.parse_query in two processes: the question, the hash
    \* seed of each process, the intent each call returned
    query, hash_seed, intent,
    \* the processed corpus and the index directory on disk; the running engine
    \* call, its position, its locals and its outcome
    disk, op, op_pc, built, outcome,
    \* a search running in a second thread of the engine's process: its position
    \* and what it has read so far
    search_pc, seen

scoreVars == <<chunk, query_info, score, score_pc>>
engineVars == <<index, chunks_data, call, results>>
chunkVars == <<content, max_size, words, wi, current_chunk, current_size, chunks, chunk_pc>>
sectVars == <<document, sections, sect_pc>>
corpusVars == <<raw_data, ticker_i, file_i, all_chunks, run_chunks, saved, run_pc>>
parseVars == <<query, hash_seed, intent>>
storeVars == <<disk, op, op_pc, built, outcome, search_pc, seen>>
vars == <<scoreVars, engineVars, chunkVars, sectVars, corpusVars, parseVars, storeVars>>

None == "None"
\* no score computed yet
NoScore == 0 - 1
\* self.index = None
NoIndex == [loaded |-> FALSE, ntotal |-> 0]
\* no call made, or its outcome taken
NoCall == [op |-> "none"]
NoResults == [status |-> "none", error |-> "", items |-> <<>>]
Raised(e) == [status |-> "raised", error |-> e, items |-> <<>>]
Returned(rs) == [status |-> "returned", error |-> "", items |-> rs]

\* ------------------------------------------------------------------ helpers

Range(s) == {s[i] : i \in 1..Len(s)}

Min(a, b) == IF a <= b THEN a ELSE b

\* All sequences over S of length at most n.
SeqsUpTo(S, n) == UNION {[1..k -> S] : k \in 0..n}

UpperChars ==
    <<"A","B","C","D","E","F","G","H","I","J","K","L","M",
      "N","O","P","Q","R","S","T","U","V","W","X","Y","Z">>

LowerChars ==
    <<"a","b","c","d","e","f","g","h","i","j","k","l","m",
      "n","o","p","q","r","s","t","u","v","w","x","y","z">>

\* str.lower() on one character
LowerChar(c) ==
    IF \E i \in 1..Len(UpperChars) : UpperChars[i] = c
    THEN LowerChars[CHOOSE i \in 1..Len(UpperChars) : UpperChars[i] = c]
    ELSE c

\* str.lower()
Lower(s) == [i \in 1..Len(s) |-> LowerChar(s[i])]

\* Python's  s in t  on strings
IsSubstring(s, t) ==
    \E i \in 0..(Len(t) - Len(s)) : SubSeq(t, i + 1, i + Len(s)) = s

\* ------------------------------------------------------------------ score_metadata
\* embedding_engine.py:103-119, scores in hundredths.

BaselineScore == 10
TickerBonus == 30
FilingTypeBonus == 20
SectionBonus == 20
ConceptBonus == 10
MaxScore == 100

\* line 106-107
TickerTerm(c, q) ==
    IF q.tickers # <<>> /\ c.ticker \in Range(q.tickers) THEN TickerBonus ELSE 0

\* line 108-109
FilingTypeTerm(c, q) ==
    IF q.filing_types # <<>> /\ c.filing_type \in Range(q.filing_types)
    THEN FilingTypeBonus ELSE 0

\* score after the section loop of lines 110-114, entered with score s: the
\* first matching section adds the bonus and breaks out of the loop
SectionStepReset(s, c, q) ==
    IF \E i \in 1..Len(q.relevant_sections) :
           IsSubstring(Lower(q.relevant_sections[i]), Lower(c.section))
    THEN SectionBonus ELSE s

\* the containment asked the other way round
SectionStepReversed(s, c, q) ==
    IF q.relevant_sections # <<>>
       /\ \E i \in 1..Len(q.relevant_sections) :
              IsSubstring(Lower(c.section), Lower(q.relevant_sections[i]))
    THEN s + SectionBonus ELSE s

SectionStep(s, c, q) ==
    IF q.relevant_sections # <<>>
       /\ \E i \in 1..Len(q.relevant_sections) :
              IsSubstring(Lower(q.relevant_sections[i]), Lower(c.section))
    THEN s + SectionBonus ELSE s

\* line 115-117: len(set(chunk concepts) & set(query concepts)) * 0.1
ConceptTermCapped(c, q) ==
    Min(2 * ConceptBonus,
        Cardinality(Range(c.financial_concepts) \cap Range(q.financial_concepts))
            * ConceptBonus)

ConceptTerm(c, q) ==
    IF q.financial_concepts # <<>>
    THEN Cardinality(Range(c.financial_concepts) \cap Range(q.financial_concepts))
             * ConceptBonus
    ELSE 0

\* the whole function: accumulate, then min(score, 1.0)
ScoreMetadata(c, q) ==
    LET s1 == BaselineScore + TickerTerm(c, q)
        s2 == s1 + FilingTypeTerm(c, q)
        s3 == SectionStep(s2, c, q)
        s4 == s3 + ConceptTerm(c, q)
    IN  Min(s4, MaxScore)

\* ---- inputs of the scoring specification

MaxSections == 2

ChunkTickers == {"AAPL"}
QueryTickerLists == {<<>>, <<"AAPL">>, <<"MSFT">>}
ChunkFilingTypes == {"10-K"}
QueryFilingTypeLists == {<<>>, <<"10-K">>, <<"10-Q", "8-K">>}
ChunkSections == {<<"M","D","&","A">>, <<"B","u","s","i","n","e","s","s">>}
QuerySections == {<<"m","d">>, <<"B","U","S","I","N","E","S","S">>, <<"I","t","e","m"," ","1">>}
Concepts == <<"revenue_performance", "risk_factors", "research_development">>

\* duplicate-free concept lists in taxonomy order, as tag_concepts and
\* _map_financial_concepts produce them
ConceptLists ==
    {SelectSeq(Concepts, LAMBDA x : x \in S) : S \in SUBSET Range(Concepts)}

ScoreChunks ==
    [ticker : ChunkTickers, filing_type : ChunkFilingTypes,
     section : ChunkSections, financial_concepts : ConceptLists]

ScoreQueries ==
    [tickers : QueryTickerLists, filing_types : QueryFilingTypeLists,
     relevant_sections : SeqsUpTo(QuerySections, MaxSections),
     financial_concepts : ConceptLists]

ScoreIdle ==
    /\ chunk = None /\ query_info = None /\ score = NoScore /\ score_pc = "idle"

ScoreInit ==
    /\ chunk \in ScoreChunks
    /\ query_info \in ScoreQueries
    /\ score = NoScore
    /\ score_pc = "call"

\* one call of score_metadata
Score ==
    /\ score_pc = "call"
    /\ score' = ScoreMetadata(chunk, query_info)
    /\ score_pc' = "returned"
    /\ UNCHANGED <<chunk, query_info>>
    /\ UNCHANGED <<engineVars, chunkVars, sectVars, corpusVars, parseVars, storeVars>>

EngineIdle == index = NoIndex /\ chunks_data = <<>> /\ call = NoCall /\ results = NoResults
ChunkIdle ==
    /\ content = <<>> /\ max_size = 0 /\ words = <<>> /\ wi = 0
    /\ current_chunk = <<>> /\ current_size = 0 /\ chunks = <<>> /\ chunk_pc = "idle"
SectIdle == document = <<>> /\ sections = <<>> /\ sect_pc = "idle"
CorpusIdle ==
    /\ raw_data = <<>> /\ ticker_i = 0 /\ file_i = 0 /\ all_chunks = <<>>
    /\ run_chunks = <<>> /\ saved = <<>> /\ run_pc = "idle"
ParseIdle == query = <<>> /\ hash_seed = <<>> /\ intent = <<>>
StoreIdle ==
    /\ disk = <<>> /\ op = <<>> /\ op_pc = "idle" /\ built = <<>> /\ outcome = <<>>
    /\ search_pc = "idle" /\ seen = <<>>
OthersIdle == CorpusIdle /\ ParseIdle /\ StoreIdle

InitScore == ScoreInit /\ EngineIdle /\ ChunkIdle /\ SectIdle /\ OthersIdle
NextScore == Score
SpecScore == InitScore /\ [][NextScore]_vars

\* ------------------------------------------------------------------ claims on score_metadata

Ind(b) == IF b THEN 1 ELSE 0

SharedConcepts(c, q) ==
    Range(c.financial_concepts) \cap Range(q.financial_concepts)

SomeSectionMatches(c, q) ==
    \E sec \in Range(q.relevant_sections) : IsSubstring(Lower(sec), Lower(c.section))

\* C2: score_metadata returns exactly
\* min(1.0, 0.1 + 0.3*[ticker among the intent's tickers]
\*             + 0.2*[filing type among the intent's filing types]
\*             + 0.2*[some intent section is a case-insensitive substring of the
\*                    chunk's section, counted once]
\*             + 0.1*(number of shared concepts)), the concept term uncapped
\* before the final clamp.
C2_ScoreClosedForm ==
    score_pc = "returned" =>
        score = Min(100,
                    10 + 30 * Ind(chunk.ticker \in Range(query_info.tickers))
                       + 20 * Ind(chunk.filing_type \in Range(query_info.filing_types))
                       + 20 * Ind(SomeSectionMatches(chunk, query_info))
                       + 10 * Cardinality(SharedConcepts(chunk, query_info)))

\* three shared concepts and no other match: 0.1 + 3 * 0.1, nothing capped early
C2_Witness ==
    /\ score_pc = "returned"
    /\ Cardinality(SharedConcepts(chunk, query_info)) = 3
    /\ chunk.ticker \notin Range(query_info.tickers)
    /\ chunk.filing_type \notin Range(query_info.filing_types)
    /\ Len(query_info.relevant_sections) = 2
    /\ ~SomeSectionMatches(chunk, query_info)
    /\ score = 40

\* the chunk/intent pairs obtained from (c, q) by adding one match
AddTicker(c, q) == [q EXCEPT !.tickers = Append(@, c.ticker)]
AddFilingType(c, q) == [q EXCEPT !.filing_types = Append(@, c.filing_type)]
AddSection(c, q, sec) == [q EXCEPT !.relevant_sections = Append(@, sec)]
AddConcept(l, x) == SelectSeq(Concepts, LAMBDA y : y \in Range(l) \cup {x})

MatchingSections(c) == {sec \in QuerySections : IsSubstring(Lower(sec), Lower(c.section))}

Extensions(c, q) ==
    {<<c, AddTicker(c, q)>>, <<c, AddFilingType(c, q)>>}
    \cup {<<c, AddSection(c, q, sec)>> : sec \in MatchingSections(c)}
    \cup {<<[c EXCEPT !.financial_concepts = AddConcept(@, x)],
            [q EXCEPT !.financial_concepts = AddConcept(@, x)]>> :
          x \in Range(Concepts) \ SharedConcepts(c, q)}

\* C3: score_metadata is monotonic and bounded: adding a matching ticker, a
\* matching filing type, a matching section substring or one more shared
\* concept to a chunk/intent pair never decreases the score, and the score
\* stays within [0.1, 1.0].
C3_ScoreMonotonicBounded ==
    score_pc = "returned" =>
        /\ BaselineScore <= score
        /\ score <= MaxScore
        /\ \A e \in Extensions(chunk, query_info) : ScoreMetadata(e[1], e[2]) >= score

\* a pair whose ticker does not match yet and whose score the added ticker raises
C3_Witness ==
    /\ score_pc = "returned"
    /\ chunk.ticker \notin Range(query_info.tickers)
    /\ SomeSectionMatches(chunk, query_info)
    /\ ScoreMetadata(chunk, AddTicker(chunk, query_info)) = score + TickerBonus
    /\ \E sec \in MatchingSections(chunk) :
           ScoreMetadata(chunk, AddSection(chunk, query_info, sec)) = score

\* ------------------------------------------------------------------ EmbeddingEngine.search
\* embedding_engine.py:121-153.  Similarities are cosine values in hundredths;
\* final scores are in thousandths: 0.7 * similarity + 0.3 * metadata_score.

SimFloor == 10
SimWeight == 7
MetaWeight == 3
SearchFactor == 5

MaxChunks == 3
MaxTopK == 2

\* similarities the index may report: below the floor, on it, above it
SimValues == {5, 10, 40}
\* what faiss reports in the slots it cannot fill (-3.4e38 with label -1)
PadSim == -1000

\* the chunk records of a processed corpus (preprocessing.py:169-175), as far as
\* search reads them
ChunkKinds ==
    { [content |-> "management discussion", ticker |-> "AAPL", filing_type |-> "10-K",
       section |-> <<"M","D","&","A">>,
       financial_concepts |-> <<"revenue_performance">>],
      [content |-> "business overview", ticker |-> "MSFT", filing_type |-> "10-Q",
       section |-> <<"B","u","s","i","n","e","s","s">>,
       financial_concepts |-> <<"risk_factors">>] }

WithId(kind, n) ==
    [content |-> kind.content, ticker |-> kind.ticker, filing_type |-> kind.filing_type,
     section |-> kind.section, chunk_id |-> n, financial_concepts |-> kind.financial_concepts]

\* load_chunks(): the chunk lists the processed files may hold; chunk_id carries
\* the ordinal of the chunk
Corpora ==
    {[i \in 1..Len(ks) |-> WithId(ks[i], i - 1)] : ks \in SeqsUpTo(ChunkKinds, MaxChunks)}

\* taxonomy.parse_query(query), as far as score_metadata reads it
SearchQueries ==
    { [tickers |-> <<>>, filing_types |-> <<>>, relevant_sections |-> <<>>,
       financial_concepts |-> <<>>],
      [tickers |-> <<"AAPL">>, filing_types |-> <<"10-K">>,
       relevant_sections |-> <<<<"I","t","e","m"," ","1">>, <<"m","d","&","a">>>>,
       financial_concepts |-> <<>>],
      [tickers |-> <<"AAPL">>, filing_types |-> <<"10-K">>,
       relevant_sections |-> <<<<"I","t","e","m"," ","1">>, <<"m","d","&","a">>>>,
       financial_concepts |-> <<"revenue_performance">>] }

InjectiveSeqs(n, k) ==
    {f \in [1..k -> 0..(n - 1)] : \A i, j \in 1..k : i # j => f[i] # f[j]}

NonIncreasingSims(k) ==
    {f \in [1..k -> SimValues] : \A i \in 1..(k - 1) : f[i] >= f[i + 1]}

\* index.search(query_embedding, k) on an inner-product index of ntotal vectors:
\* k pairs <<similarity, position>>, best first, each position at most once;
\* the order among equal similarities is the library's
FaissSearch(ntotal, k) ==
    LET m == Min(k, ntotal) IN
    { [i \in 1..k |-> IF i <= m THEN <<sims[i], idxs[i]>> ELSE <<PadSim, -1>>] :
        idxs \in InjectiveSeqs(ntotal, m), sims \in NonIncreasingSims(m) }

\* line 129
SearchK(top_k, n) == Min(top_k * SearchFactor, n)

\* line 134-135: candidates below the floor are skipped
PassesFloor(similarity) == ~(similarity < SimFloor)

\* line 139
FinalScore(similarity, metadata_score) ==
    SimWeight * similarity + MetaWeight * metadata_score

\* line 137-150: the SearchResult of one candidate
MakeResult(cand, q, data) ==
    LET c == data[cand[2] + 1] IN
    [content |-> c.content, ticker |-> c.ticker, filing_type |-> c.filing_type,
     section |-> c.section, chunk_id |-> c.chunk_id,
     financial_concepts |-> c.financial_concepts,
     similarity_score |-> cand[1],
     final_score |-> FinalScore(cand[1], ScoreMetadata(c, q))]

\* line 132-151: the loop over zip(similarities[0], indices[0])
RECURSIVE CollectResults(_, _, _)
CollectResults(cands, q, data) ==
    IF cands = <<>> THEN <<>>
    ELSE LET rest == CollectResults(Tail(cands), q, data) IN
         IF PassesFloor(Head(cands)[1])
         THEN <<MakeResult(Head(cands), q, data)>> \o rest
         ELSE rest

\* sorted(results, key=final_score, reverse=True): a stable sort, so results
\* of equal final_score keep their order.  r goes behind every element whose
\* key is at least its own.
InsertBeforeEquals(sorted, r) ==
    LET ahead == Cardinality({i \in 1..Len(sorted) : sorted[i].final_score > r.final_score})
    IN  SubSeq(sorted, 1, ahead) \o <<r>> \o SubSeq(sorted, ahead + 1, Len(sorted))

InsertStable(sorted, r) ==
    LET ahead == Cardinality({i \in 1..Len(sorted) : sorted[i].final_score >= r.final_score})
    IN  SubSeq(sorted, 1, ahead) \o <<r>> \o SubSeq(sorted, ahead + 1, Len(sorted))

RECURSIVE SortedByFinalScore(_)
SortedByFinalScore(rs) ==
    IF rs = <<>> THEN <<>>
    ELSE InsertStable(SortedByFinalScore(SubSeq(rs, 1, Len(rs) - 1)), rs[Len(rs)])

\* [:top_k]
TakeAll(rs, top_k) == rs

Take(rs, top_k) == SubSeq(rs, 1, Min(top_k, Len(rs)))

\* line 153
RankAndTruncate(rs, top_k) == Take(SortedByFinalScore(rs), top_k)

NoChunksError == "ValueError: No chunks found!"
NotLoadedError == "ValueError: Index not loaded"
IndexRangeError == "IndexError: list index out of range"

\* initialize(): the build of lines 159-166 from the chunks load_chunks() returns
Initialize ==
    /\ call = NoCall
    /\ \E cs \in Corpora :
          \/ /\ cs = <<>>
             /\ results' = Raised(NoChunksError)
             /\ call' = [op |-> "initialize"]
             /\ UNCHANGED <<index, chunks_data>>
          \/ /\ cs # <<>>
             /\ index' = [loaded |-> TRUE, ntotal |-> Len(cs)]
             /\ chunks_data' = cs
             /\ UNCHANGED <<call, results>>
    /\ UNCHANGED <<scoreVars, chunkVars, sectVars, corpusVars, parseVars, storeVars>>

\* search(query, top_k) without an index: line 122-123
SearchNotLoaded ==
    /\ call = NoCall
    /\ ~index.loaded
    /\ \E k \in 1..MaxTopK, q \in SearchQueries :
          /\ call' = [op |-> "search", top_k |-> k, query_info |-> q, candidates |-> <<>>]
          /\ results' = Raised(NotLoadedError)
    /\ UNCHANGED <<index, chunks_data>>
    /\ UNCHANGED <<scoreVars, chunkVars, sectVars, corpusVars, parseVars, storeVars>>

\* search(query, top_k) on a loaded index: line 125-153
Search ==
    /\ call = NoCall
    /\ index.loaded
    /\ \E k \in 1..MaxTopK, q \in SearchQueries :
       \E cands \in FaissSearch(index.ntotal, SearchK(k, Len(chunks_data))) :
          /\ call' = [op |-> "search", top_k |-> k, query_info |-> q, candidates |-> cands]
          /\ results' =
                IF \E i \in 1..Len(cands) :
                       PassesFloor(cands[i][1]) /\ cands[i][2] >= Len(chunks_data)
                THEN Raised(IndexRangeError)
                ELSE Returned(RankAndTruncate(CollectResults(cands, q, chunks_data), k))
    /\ UNCHANGED <<index, chunks_data>>
    /\ UNCHANGED <<scoreVars, chunkVars, sectVars, corpusVars, parseVars, storeVars>>

\* the caller takes the outcome of the call
Return ==
    /\ call # NoCall
    /\ call' = NoCall
    /\ results' = NoResults
    /\ UNCHANGED <<index, chunks_data>>
    /\ UNCHANGED <<scoreVars, chunkVars, sectVars, corpusVars, parseVars, storeVars>>

InitSearch == EngineIdle /\ ScoreIdle /\ ChunkIdle /\ SectIdle /\ OthersIdle
NextSearch == Initialize \/ SearchNotLoaded \/ Search \/ Return
SpecSearch == InitSearch /\ [][NextSearch]_vars

\* ------------------------------------------------------------------ claims on search

Items == results.items

\* place of a result's chunk in the list the similarity search returned
CandRank(r) ==
    CHOOSE j \in 1..Len(call.candidates) :
        chunks_data[call.candidates[j][2] + 1].chunk_id = r.chunk_id

\* the candidates that clear the similarity floor
Passing == {j \in 1..Len(call.candidates) : call.candidates[j][1] >= 10}

CandFinal(j) ==
    7 * call.candidates[j][1]
      + 3 * ScoreMetadata(chunks_data[call.candidates[j][2] + 1], call.query_info)

\* C1: on a ready index, search(query, K) with K >= 1 returns at most K
\* results, in non-increasing order of final_score, each with
\* similarity_score >= 0.1.
C1_SearchTopK ==
    results.status = "returned" =>
        /\ Len(Items) <= call.top_k
        /\ \A i, j \in 1..Len(Items) : i < j => Items[i].final_score >= Items[j].final_score
        /\ \A i \in 1..Len(Items) : Items[i].similarity_score >= 10

\* three candidates, one under the floor, K = 1: the metadata score puts the
\* less similar of the other two first and the cut drops the more similar one
C1_Witness ==
    /\ results.status = "returned"
    /\ call.top_k = 1
    /\ Len(call.candidates) = 3
    /\ call.candidates[3][1] < 10
    /\ Cardinality(Passing) = 2
    /\ Len(Items) = 1
    /\ Items[1].similarity_score < call.candidates[1][1]

\* C4: results of equal final_score keep the relative order in which the
\* similarity search returned them (the descending sort is stable), and the
\* cut to top_k comes after that sort: what is cut ranks behind what is kept.
C4_StableSortThenCut ==
    results.status = "returned" =>
        /\ \A i, j \in 1..Len(Items) :
              (i < j /\ Items[i].final_score = Items[j].final_score)
                  => CandRank(Items[i]) < CandRank(Items[j])
        /\ Len(Items) = Min(call.top_k, Cardinality(Passing))
        /\ \A i \in 1..Len(Items) :
              /\ CandRank(Items[i]) \in Passing
              /\ Items[i].final_score = CandFinal(CandRank(Items[i]))
        /\ \A j \in Passing \ {CandRank(Items[i]) : i \in 1..Len(Items)} :
              \A i \in 1..Len(Items) :
                 \/ CandFinal(j) < Items[i].final_score
                 \/ CandFinal(j) = Items[i].final_score /\ CandRank(Items[i]) < j

\* three candidates of one final score but different similarities, K = 2: the
\* first two of the similarity search are returned, in its order
C4_Witness ==
    /\ results.status = "returned"
    /\ call.top_k = 2
    /\ Cardinality(Passing) = 3
    /\ Len(Items) = 2
    /\ Items[1].final_score = Items[2].final_score
    /\ Items[1].similarity_score > Items[2].similarity_score
    /\ CandFinal(3) = Items[2].final_score

\* ------------------------------------------------------------------ clean_and_chunk
\* preprocessing.py:74-93.

DefaultMaxSize == 1000

MaxContentLen == 5
MaxChunkSize == 3

\* the characters the input text is drawn from: a letter, whitespace, tag brackets
ContentChars == {"a", " ", "<", ">"}

WsChars == {" ", "\t", "\n", "\r"}

\* s with its positions: <<1, s[1]>>, <<2, s[2]>>, ...
Indexed(s) == [i \in 1..Len(s) |-> <<i, s[i]>>]

Chars(ps) == [i \in 1..Len(ps) |-> ps[i][2]]

\* whether s[i] lies in a match of <[^>]+> : a "<" at j <= i, at least one other
\* character, and the first ">" after j, at or after i
InTag(s, i) ==
    \E j \in 1..i :
        /\ s[j] = "<"
        /\ \E k \in (j + 2)..Len(s) :
              /\ s[k] = ">"
              /\ k >= i
              /\ \A m \in (j + 1)..(k - 1) : s[m] # ">"

\* line 75: re.sub(r'<[^>]+>', '', content)
StripTags(s) == Chars(SelectSeq(Indexed(s), LAMBDA p : ~InTag(s, p[1])))

\* line 76: re.sub(r'\s+', ' ', content).strip(): one blank for each run of
\* whitespace, none at either end
CollapseWs(s) ==
    LET blank(i) == s[i] \in WsChars
        kept(i) ==
            \/ ~blank(i)
            \/ /\ i > 1 /\ ~blank(i - 1)
               /\ \E k \in (i + 1)..Len(s) : ~blank(k)
        runs == SelectSeq(Indexed(s), LAMBDA p : kept(p[1]))
    IN  [i \in 1..Len(runs) |-> IF runs[i][2] \in WsChars THEN " " ELSE runs[i][2]]

\* line 79: content.split(): the maximal runs of non-whitespace characters
Split(s) ==
    LET blank(i) == s[i] \in WsChars
        starts == SelectSeq(Indexed(s),
                            LAMBDA p : ~blank(p[1]) /\ (p[1] = 1 \/ blank(p[1] - 1)))
        stop(a) == IF \E k \in a..Len(s) : blank(k)
                   THEN (CHOOSE k \in a..Len(s) : blank(k) /\ \A m \in a..(k - 1) : ~blank(m)) - 1
                   ELSE Len(s)
    IN  [n \in 1..Len(starts) |-> SubSeq(s, starts[n][1], stop(starts[n][1]))]

\* ' '.join(ws), ws not empty
RECURSIVE Join(_)
Join(ws) ==
    IF Len(ws) = 1 THEN ws[1]
    ELSE LET h == Len(ws) \div 2
         IN  Join(SubSeq(ws, 1, h)) \o <<" ">> \o Join(SubSeq(ws, h + 1, Len(ws)))

\* line 83
WordLenNoSeparator(word) == Len(word)

WordLen(word) == Len(word) + 1

\* line 84: the comparison that closes a chunk
ExceedsOrEqual(size, limit) == size >= limit

Exceeds(size, limit) == size > limit

\* line 86: the chunk a closing word opens
RestartEmpty(word) == <<>>

Restart(word) == <<word>>

ChunkInputs ==
    /\ content \in SeqsUpTo(ContentChars, MaxContentLen)
    /\ max_size \in 1..MaxChunkSize

ChunkEntry ==
    /\ words = <<>> /\ wi = 0 /\ current_chunk = <<>> /\ current_size = 0
    /\ chunks = <<>> /\ chunk_pc = "clean"

\* line 75-80
CleanAndSplit ==
    /\ chunk_pc = "clean"
    /\ words' = Split(CollapseWs(StripTags(content)))
    /\ chunk_pc' = "pack"
    /\ UNCHANGED <<content, max_size, wi, current_chunk, current_size, chunks>>
    /\ UNCHANGED <<scoreVars, engineVars, sectVars, corpusVars, parseVars, storeVars>>

\* line 82-89: one turn of the loop over words
PackWord ==
    /\ chunk_pc = "pack"
    /\ wi < Len(words)
    /\ LET word == words[wi + 1]
           word_len == WordLen(word)
       IN  \/ /\ Exceeds(current_size + word_len, max_size)
              /\ current_chunk # <<>>
              /\ chunks' = Append(chunks, Join(current_chunk))
              /\ current_chunk' = Restart(word)
              /\ current_size' = Len(word)
           \/ /\ ~(Exceeds(current_size + word_len, max_size) /\ current_chunk # <<>>)
              /\ current_chunk' = Append(current_chunk, word)
              /\ current_size' = current_size + word_len
              /\ UNCHANGED chunks
    /\ wi' = wi + 1
    /\ UNCHANGED <<content, max_size, words, chunk_pc>>
    /\ UNCHANGED <<scoreVars, engineVars, sectVars, corpusVars, parseVars, storeVars>>

\* line 91-93
FlushAndReturn ==
    /\ chunk_pc = "pack"
    /\ wi = Len(words)
    /\ chunks' = IF current_chunk # <<>> THEN Append(chunks, Join(current_chunk)) ELSE chunks
    /\ chunk_pc' = "done"
    /\ UNCHANGED <<content, max_size, words, wi, current_chunk, current_size>>
    /\ UNCHANGED <<scoreVars, engineVars, sectVars, corpusVars, parseVars, storeVars>>

InitChunk == ChunkInputs /\ ChunkEntry /\ ScoreIdle /\ EngineIdle /\ SectIdle /\ OthersIdle
NextChunk == CleanAndSplit \/ PackWord \/ FlushAndReturn
SpecChunk == InitChunk /\ [][NextChunk]_vars

\* the text of DefaultMaxSize + 1 one-character tokens, one blank between two
ExampleText ==
    [i \in 1..(2 * (DefaultMaxSize + 1) - 1) |-> IF i % 2 = 1 THEN "a" ELSE " "]

InitExample ==
    /\ content = ExampleText /\ max_size = DefaultMaxSize
    /\ ChunkEntry /\ ScoreIdle /\ EngineIdle /\ SectIdle /\ OthersIdle
SpecExample == InitExample /\ [][NextChunk]_vars

\* ------------------------------------------------------------------ claims on clean_and_chunk

\* the tokens of a chunk
Tokens(c) == Split(c)

\* the concatenation of the sequences in ss
RECURSIVE Flatten(_)
Flatten(ss) ==
    IF ss = <<>> THEN <<>>
    ELSE IF Len(ss) = 1 THEN ss[1]
    ELSE LET h == Len(ss) \div 2
         IN  Flatten(SubSeq(ss, 1, h)) \o Flatten(SubSeq(ss, h + 1, Len(ss)))

\* C5: every chunk clean_and_chunk returns has at most max_size characters,
\* except a chunk that is exactly one token longer than max_size.
C5_ChunkSizeBound ==
    \A i \in 1..Len(chunks) :
        \/ Len(chunks[i]) <= max_size
        \/ Len(Tokens(chunks[i])) = 1 /\ Len(Tokens(chunks[i])[1]) > max_size

\* a run that returns a one-token chunk over the limit and a chunk that fills
\* the limit exactly
C5_Witness ==
    /\ chunk_pc = "done"
    /\ \E i \in 1..Len(chunks) : Len(chunks[i]) > max_size
    /\ \E i \in 1..Len(chunks) : Len(chunks[i]) = max_size

\* C6 as stated: the text of 1001 one-character tokens, one blank between two,
\* chunked with max_size = 1000, gives exactly 2 chunks.
C6_ExampleTwoChunks ==
    chunk_pc = "done" => Len(chunks) = 2

\* C6 as amended: that text gives exactly 3 chunks, of 500, 500 and 1 tokens.
C6_ExampleThreeChunks ==
    chunk_pc = "done" =>
        /\ Len(chunks) = 3
        /\ Len(chunks[1]) = 999 /\ Len(chunks[2]) = 999 /\ Len(chunks[3]) = 1
        /\ \A i \in 1..3 : Len(chunks[i]) <= max_size

C6_Witness ==
    /\ chunk_pc = "done"
    /\ Len(words) = 1001
    /\ \A i \in 1..Len(words) : Len(words[i]) = 1
    /\ Len(content) = 2001
    /\ max_size = 1000

\* C7: first-fit greedy for every chunk, the first included: a chunk is closed
\* only when its joined length plus one separator plus the length of the next
\* token exceeds max_size.
C7_FirstFitEveryChunk ==
    chunk_pc = "done" =>
        \A i \in 1..(Len(chunks) - 1) :
            Len(chunks[i]) + 1 + Len(Tokens(chunks[i + 1])[1]) > max_size

\* C8: the chunks are non-empty and their tokens, in output order, are exactly
\* the whitespace-delimited tokens of the cleaned text.
C8_TokensPreserved ==
    chunk_pc = "done" =>
        /\ \A i \in 1..Len(chunks) : chunks[i] # <<>>
        /\ Flatten([i \in 1..Len(chunks) |-> Tokens(chunks[i])])
               = Split(CollapseWs(StripTags(content)))

\* three tokens in two chunks, the second chunk holding two of them
C8_Witness ==
    /\ chunk_pc = "done"
    /\ Len(words) = 3
    /\ Len(chunks) = 2
    /\ Len(Tokens(chunks[2])) = 2

\* ------------------------------------------------------------------ extract_sections
\* preprocessing.py:37-72.  A document is a sequence of pieces: an occurrence
\* of a section pattern (a marker), a block of BlockLen characters that are
\* neither whitespace nor part of a marker, or one blank.  Offsets count
\* pieces; lengths count characters.

MinSectionLen == 200
BlockLen == MinSectionLen \div 2

MaxDocLen == 5

\* self.section_patterns, in the order of the dict: <<section name, marker>>
SectionPatterns ==
    << <<"Risk Factors", "item 1a. risk factors">>,
       <<"Business", "item 1. business">>,
       <<"MD&A", "item 7. management's discussion">>,
       <<"Financial Statements", "item 8. financial statements">>,
       <<"Compensation", "compensation discussion">>,
       <<"Executive Compensation", "executive compensation">> >>

Markers == {SectionPatterns[i][2] : i \in 1..Len(SectionPatterns)}

\* the pieces documents are drawn from
DocPieces ==
    {"item 1a. risk factors", "item 1. business", "item 8. financial statements", "X", " "}

\* len() of one piece
PieceLen(x) ==
    CASE x = "X" -> BlockLen
      [] x = " " -> 1
      [] x = "item 1a. risk factors" -> 21
      [] x = "item 1. business" -> 16
      [] x = "item 7. management's discussion" -> 31
      [] x = "item 8. financial statements" -> 28
      [] x = "compensation discussion" -> 23
      [] x = "executive compensation" -> 22

\* len(text)
RECURSIVE CharLen(_)
CharLen(text) == IF text = <<>> THEN 0 ELSE PieceLen(Head(text)) + CharLen(Tail(text))

\* list(re.finditer(pattern, text)): the places of the marker in text
MatchesOf(marker, text) == {i \in 1..Len(text) : text[i] = marker}

FirstOf(S) == CHOOSE i \in S : \A j \in S : i <= j

\* text.strip()
StripText(text) ==
    LET solid == {i \in 1..Len(text) : text[i] # " "}
    IN  IF solid = {} THEN <<>>
        ELSE SubSeq(text, FirstOf(solid), CHOOSE i \in solid : \A j \in solid : j <= i)

\* line 62: whether a later marker at offset potential_end cuts the section
Cuts(start, potential_end, end) ==
    start < potential_end /\ potential_end < end

\* lines 57-63: end after the loop over the first n other patterns
RECURSIVE EndAfter(_, _, _, _)
EndAfter(n, marker, start, text) ==
    IF n = 0 THEN Len(text)
    ELSE LET end == EndAfter(n - 1, marker, start, text)
             other == SectionPatterns[n][2]
             next_matches == MatchesOf(other, SubSeq(text, start + 1, Len(text)))
         IN  IF other # marker /\ next_matches # {}
                /\ Cuts(start, start + FirstOf(next_matches) - 1, end)
             THEN start + FirstOf(next_matches) - 1
             ELSE end

\* lines 66 and 70
LongEnoughOrEqual(text) == CharLen(text) >= MinSectionLen

LongEnough(text) == CharLen(text) > MinSectionLen

\* lines 50-67: sections after the loop over the first n patterns, as the
\* list of the dict's items
RECURSIVE SectionsAfter(_, _)
SectionsAfter(n, text) ==
    IF n = 0 THEN <<>>
    ELSE LET before == SectionsAfter(n - 1, text)
             marker == SectionPatterns[n][2]
             matches == MatchesOf(marker, text)
             start == FirstOf(matches)
             end == EndAfter(Len(SectionPatterns), marker, start, text)
             section_content == StripText(SubSeq(text, start + 1, end))
         IN  IF matches # {} /\ LongEnough(section_content)
             THEN Append(before, [name |-> SectionPatterns[n][1], content |-> section_content])
             ELSE before

\* the whole function
ExtractSectionsOf(text) ==
    LET found == SectionsAfter(Len(SectionPatterns), text)
    IN  IF found = <<>> /\ LongEnough(text)
        THEN <<[name |-> "General Content", content |-> text]>>
        ELSE found

SectInputs == document \in SeqsUpTo(DocPieces, MaxDocLen)

ExtractSections ==
    /\ sect_pc = "call"
    /\ sections' = ExtractSectionsOf(document)
    /\ sect_pc' = "returned"
    /\ UNCHANGED document
    /\ UNCHANGED <<scoreVars, engineVars, chunkVars, corpusVars, parseVars, storeVars>>

InitSect ==
    /\ SectInputs /\ sections = <<>> /\ sect_pc = "call"
    /\ ScoreIdle /\ EngineIdle /\ ChunkIdle /\ OthersIdle
NextSect == ExtractSections
SpecSect == InitSect /\ [][NextSect]_vars

\* ------------------------------------------------------------------ claims on extract_sections

MarkerOf(name) ==
    SectionPatterns[CHOOSE i \in 1..Len(SectionPatterns) : SectionPatterns[i][1] = name][2]

SectionNames == {SectionPatterns[i][1] : i \in 1..Len(SectionPatterns)}

\* where the content of the section of marker a begins: behind its first marker
ContentStart(a) == FirstOf(MatchesOf(a, document))

\* the markers of other section types behind the first marker of a
LaterMarkers(a) ==
    {i \in (ContentStart(a) + 1)..Len(document) :
        document[i] \in Markers /\ document[i] # a}

\* C9: the content extracted for a section A ends exactly where the nearest
\* marker of another section type behind A's first marker begins, and at the
\* end of the document if there is none.
C9_EndsAtNextMarker ==
    sect_pc = "returned" =>
        \A k \in 1..Len(sections) :
            sections[k].name \in SectionNames =>
                LET a == MarkerOf(sections[k].name)
                    stop == IF LaterMarkers(a) = {} THEN Len(document)
                            ELSE FirstOf(LaterMarkers(a)) - 1
                IN  sections[k].content
                        = StripText(SubSeq(document, ContentStart(a) + 1, stop))

\* C10: a matched section is kept only if its content is longer than 200
\* characters, and a document longer than 200 characters in which no pattern
\* matches gives exactly one section, "General Content", holding the whole
\* document.
C10_ThresholdAndFallback ==
    sect_pc = "returned" =>
        /\ \A k \in 1..Len(sections) :
              sections[k].name # "General Content" =>
                  /\ sections[k].name \in SectionNames
                  /\ MatchesOf(MarkerOf(sections[k].name), document) # {}
                  /\ CharLen(sections[k].content) > 200
        /\ ((\A i \in 1..Len(document) : document[i] \notin Markers)
               /\ CharLen(document) > 200)
              => sections = <<[name |-> "General Content", content |-> document]>>

\* a document of 201 characters without a marker, returned whole
C10_Witness ==
    /\ sect_pc = "returned"
    /\ \A i \in 1..Len(document) : document[i] \notin Markers
    /\ CharLen(document) = 201
    /\ Len(sections) = 1
    /\ sections[1].name = "General Content"
    /\ sections[1].content = document

\* ------------------------------------------------------------------ FinancialTaxonomy.parse_query
\* financial_taxonomy.py:10-160 and config.py:21-33.  A question is a sequence
\* of one-character strings.

\* self.taxonomy (financial_taxonomy.py:10-61), in the order of the dict; keywords as
\* character sequences.  xbrl_tags are read by no operation and left out.
Taxonomy ==
    << [concept |-> "revenue_performance",
        keywords |-> << <<"r","e","v","e","n","u","e">>, <<"s","a","l","e","s">>,
                      <<"i","n","c","o","m","e">>, <<"e","a","r","n","i","n","g","s">>,
                      <<"p","r","o","f","i","t">>,
                      <<"p","e","r","f","o","r","m","a","n","c","e">>,
                      <<"t","o","p"," ","l","i","n","e">>,
                      <<"n","e","t"," ","s","a","l","e","s">>,
                      <<"t","o","t","a","l"," ","r","e","v","e","n","u","e">>,
                      <<"o","p","e","r","a","t","i","n","g"," ","r","e","v","e","n","u","e">>,
                      <<"g","r","o","w","t","h">>, <<"d","e","c","l","i","n","e">> >>,
        sec_sections |-> << "Item 1 - Business", "Item 7 - Management's Discussion",
                          "Item 8 - Financial Statements",
                          "Consolidated Statements of Operations" >>,
        filing_types |-> <<"10-K", "10-Q", "8-K">>],
       [concept |-> "risk_factors",
        keywords |-> << <<"r","i","s","k">>, <<"r","i","s","k","s">>,
                      <<"r","i","s","k"," ","f","a","c","t","o","r","s">>,
                      <<"u","n","c","e","r","t","a","i","n","t","i","e","s">>,
                      <<"c","h","a","l","l","e","n","g","e","s">>,
                      <<"t","h","r","e","a","t","s">>,
                      <<"v","u","l","n","e","r","a","b","i","l","i","t","i","e","s">>,
                      <<"m","a","t","e","r","i","a","l"," ","a","d","v","e","r","s","e">>,
                      <<"c","y","b","e","r">>,
                      <<"c","y","b","e","r","s","e","c","u","r","i","t","y">>,
                      <<"r","e","g","u","l","a","t","o","r","y"," ","r","i","s","k">>,
                      <<"m","a","r","k","e","t"," ","r","i","s","k">> >>,
        sec_sections |-> << "Item 1A - Risk Factors",
                          "Item 7A - Quantitative and Qualitative Disclosures About Market Risk" >>,
        filing_types |-> <<"10-K", "10-Q", "8-K">>],
       [concept |-> "research_development",
        keywords |-> << <<"r","e","s","e","a","r","c","h"," ","a","n","d"," ","d","e","v","e","l","o","p","m","e","n","t">>,
                      <<"r","&","d">>, <<"i","n","n","o","v","a","t","i","o","n">>,
                      <<"t","e","c","h","n","o","l","o","g","y">>,
                      <<"p","a","t","e","n","t","s">>,
                      <<"i","n","t","e","l","l","e","c","t","u","a","l"," ","p","r","o","p","e","r","t","y">>,
                      <<"d","e","v","e","l","o","p","m","e","n","t"," ","c","o","s","t","s">>,
                      <<"r","e","s","e","a","r","c","h"," ","e","x","p","e","n","s","e","s">>,
                      <<"i","n","n","o","v","a","t","i","o","n"," ","i","n","v","e","s","t","m","e","n","t">> >>,
        sec_sections |-> << "Item 1 - Business", "Item 7 - Management's Discussion",
                          "Item 8 - Financial Statements" >>,
        filing_types |-> <<"10-K", "10-Q">>],
       [concept |-> "working_capital",
        keywords |-> << <<"w","o","r","k","i","n","g"," ","c","a","p","i","t","a","l">>,
                      <<"c","u","r","r","e","n","t"," ","a","s","s","e","t","s">>,
                      <<"c","u","r","r","e","n","t"," ","l","i","a","b","i","l","i","t","i","e","s">>,
                      <<"a","c","c","o","u","n","t","s"," ","r","e","c","e","i","v","a","b","l","e">>,
                      <<"i","n","v","e","n","t","o","r","y">>,
                      <<"a","c","c","o","u","n","t","s"," ","p","a","y","a","b","l","e">>,
                      <<"c","a","s","h"," ","c","o","n","v","e","r","s","i","o","n">>,
                      <<"l","i","q","u","i","d","i","t","y">> >>,
        sec_sections |-> << "Item 7 - Management's Discussion", "Item 8 - Financial Statements",
                          "Consolidated Balance Sheets" >>,
        filing_types |-> <<"10-K", "10-Q">>],
       [concept |-> "executive_compensation",
        keywords |-> << <<"e","x","e","c","u","t","i","v","e"," ","c","o","m","p","e","n","s","a","t","i","o","n">>,
                      <<"c","e","o"," ","p","a","y">>,
                      <<"e","x","e","c","u","t","i","v","e"," ","p","a","y">>,
                      <<"c","o","m","p","e","n","s","a","t","i","o","n"," ","c","o","m","m","i","t","t","e","e">>,
                      <<"s","a","l","a","r","y">>, <<"b","o","n","u","s">>,
                      <<"s","t","o","c","k"," ","o","p","t","i","o","n","s">>,
                      <<"e","q","u","i","t","y"," ","c","o","m","p","e","n","s","a","t","i","o","n">> >>,
        sec_sections |-> << "Compensation Discussion and Analysis",
                          "Executive Compensation Tables" >>,
        filing_types |-> <<"DEF 14A">>],
       [concept |-> "insider_trading",
        keywords |-> << <<"i","n","s","i","d","e","r"," ","t","r","a","d","i","n","g">>,
                      <<"i","n","s","i","d","e","r"," ","t","r","a","n","s","a","c","t","i","o","n","s">>,
                      <<"f","o","r","m"," ","3">>, <<"f","o","r","m"," ","4">>,
                      <<"f","o","r","m"," ","5">>,
                      <<"b","e","n","e","f","i","c","i","a","l"," ","o","w","n","e","r","s","h","i","p">>,
                      <<"d","i","r","e","c","t","o","r"," ","t","r","a","n","s","a","c","t","i","o","n","s">>,
                      <<"s","t","o","c","k"," ","p","u","r","c","h","a","s","e","s">>,
                      <<"s","t","o","c","k"," ","s","a","l","e","s">> >>,
        sec_sections |-> << "Security Ownership of Certain Beneficial Owners" >>,
        filing_types |-> <<"3", "4", "5", "DEF 14A">>],
       [concept |-> "climate_esg",
        keywords |-> << <<"c","l","i","m","a","t","e">>,
                      <<"c","l","i","m","a","t","e"," ","c","h","a","n","g","e">>,
                      <<"e","n","v","i","r","o","n","m","e","n","t","a","l">>,
                      <<"s","u","s","t","a","i","n","a","b","i","l","i","t","y">>,
                      <<"e","s","g">>, <<"c","a","r","b","o","n">>,
                      <<"e","m","i","s","s","i","o","n","s">>,
                      <<"r","e","n","e","w","a","b","l","e"," ","e","n","e","r","g","y">>,
                      <<"c","l","i","m","a","t","e"," ","r","i","s","k">> >>,
        sec_sections |-> << "Item 1A - Risk Factors", "Item 1 - Business",
                          "Item 7 - Management's Discussion" >>,
        filing_types |-> <<"10-K", "10-Q", "8-K">>],
       [concept |-> "mergers_acquisitions",
        keywords |-> << <<"m","e","r","g","e","r">>,
                      <<"a","c","q","u","i","s","i","t","i","o","n">>, <<"m","&","a">>,
                      <<"b","u","s","i","n","e","s","s"," ","c","o","m","b","i","n","a","t","i","o","n">>,
                      <<"p","u","r","c","h","a","s","e">>,
                      <<"d","i","v","e","s","t","i","t","u","r","e">>,
                      <<"j","o","i","n","t"," ","v","e","n","t","u","r","e">>,
                      <<"s","t","r","a","t","e","g","i","c"," ","a","l","l","i","a","n","c","e">> >>,
        sec_sections |-> << "Item 2 - Management's Discussion of Financial Condition",
                          "Item 8 - Financial Statements", "Business Combinations" >>,
        filing_types |-> <<"8-K", "10-K", "10-Q">>],
       [concept |-> "competitive_advantage",
        keywords |-> << <<"c","o","m","p","e","t","i","t","i","v","e"," ","a","d","v","a","n","t","a","g","e">>,
                      <<"m","o","a","t">>,
                      <<"d","i","f","f","e","r","e","n","t","i","a","t","i","o","n">>,
                      <<"m","a","r","k","e","t"," ","p","o","s","i","t","i","o","n">>,
                      <<"b","a","r","r","i","e","r","s"," ","t","o"," ","e","n","t","r","y">>,
                      <<"c","o","m","p","e","t","i","t","i","v","e"," ","s","t","r","e","n","g","t","h","s">>,
                      <<"m","a","r","k","e","t"," ","l","e","a","d","e","r","s","h","i","p">>,
                      <<"b","r","a","n","d"," ","s","t","r","e","n","g","t","h">> >>,
        sec_sections |-> << "Item 1 - Business", "Item 1A - Risk Factors",
                          "Item 7 - Management's Discussion" >>,
        filing_types |-> <<"10-K">>],
       [concept |-> "ai_automation",
        keywords |-> << <<"a","r","t","i","f","i","c","i","a","l"," ","i","n","t","e","l","l","i","g","e","n","c","e">>,
                      <<"a","i">>,
                      <<"m","a","c","h","i","n","e"," ","l","e","a","r","n","i","n","g">>,
                      <<"a","u","t","o","m","a","t","i","o","n">>,
                      <<"r","o","b","o","t","i","c","s">>,
                      <<"d","i","g","i","t","a","l"," ","t","r","a","n","s","f","o","r","m","a","t","i","o","n">>,
                      <<"t","e","c","h","n","o","l","o","g","y"," ","a","d","o","p","t","i","o","n">>,
                      <<"a","l","g","o","r","i","t","h","m","i","c">> >>,
        sec_sections |-> << "Item 1 - Business", "Item 1A - Risk Factors",
                          "Item 7 - Management's Discussion" >>,
        filing_types |-> <<"10-K", "10-Q", "8-K">>] >>

\* COMPANIES (config.py:21-33), in the order of the dict: the ticker, its
\* characters, and the value the dict holds for it (the CIK number)
Companies ==
    << [ticker |-> "AAPL", symbol |-> <<"A","A","P","L">>, company_name |-> <<"3","2","0","1","9","3">>],
       [ticker |-> "MSFT", symbol |-> <<"M","S","F","T">>, company_name |-> <<"7","8","9","0","1","9">>],
       [ticker |-> "NVDA", symbol |-> <<"N","V","D","A">>, company_name |-> <<"1","0","4","5","8","1","0">>],
       [ticker |-> "JPM", symbol |-> <<"J","P","M">>, company_name |-> <<"1","9","6","1","7">>],
       [ticker |-> "TSLA", symbol |-> <<"T","S","L","A">>, company_name |-> <<"1","3","1","8","6","0","5">>],
       [ticker |-> "JNJ", symbol |-> <<"J","N","J">>, company_name |-> <<"2","0","0","4","0","6">>],
       [ticker |-> "PFE", symbol |-> <<"P","F","E">>, company_name |-> <<"7","8","0","0","3">>],
       [ticker |-> "WMT", symbol |-> <<"W","M","T">>, company_name |-> <<"1","0","4","1","6","9">>],
       [ticker |-> "AMZN", symbol |-> <<"A","M","Z","N">>, company_name |-> <<"1","0","1","8","7","2","4">>],
       [ticker |-> "XOM", symbol |-> <<"X","O","M">>, company_name |-> <<"3","4","0","8","8">>],
       [ticker |-> "CAT", symbol |-> <<"C","A","T">>, company_name |-> <<"1","8","2","3","0">>] >>

Digits == <<"0","1","2","3","4","5","6","7","8","9">>

\* str.upper() on one character
UpperChar(c) ==
    IF \E i \in 1..Len(LowerChars) : LowerChars[i] = c
    THEN UpperChars[CHOOSE i \in 1..Len(LowerChars) : LowerChars[i] = c]
    ELSE c

\* str.upper()
Upper(s) == [i \in 1..Len(s) |-> UpperChar(s[i])]

\* \w of the re module on ASCII text
WordChars == Range(LowerChars) \cup Range(UpperChars) \cup Range(Digits) \cup {"_"}

IsWordChar(c) == c \in WordChars

\* \b between s[i] and s[i + 1], for i in 0..Len(s): a word character on
\* exactly one side
AtBoundary(s, i) ==
    (i >= 1 /\ i <= Len(s) /\ IsWordChar(s[i]))
        # (i + 1 >= 1 /\ i + 1 <= Len(s) /\ IsWordChar(s[i + 1]))

\* the literal lit stands in s from position i on
LitAt(lit, s, i) ==
    /\ i >= 1
    /\ i + Len(lit) - 1 <= Len(s)
    /\ SubSeq(s, i, i + Len(lit) - 1) = lit

\* where a run of \s+ that begins at position k ends (k - 1 if there is none)
WsEnd(s, k) ==
    IF \E j \in k..Len(s) : s[j] \notin WsChars
    THEN (CHOOSE j \in k..Len(s) : s[j] \notin WsChars /\ \A m \in k..(j - 1) : s[m] \in WsChars) - 1
    ELSE Len(s)

\* the last position of a match, from position i on, of the literals of parts
\* with \s+ between two of them; 0 if there is no such match
RECURSIVE EndOfMatch(_, _, _)
EndOfMatch(parts, s, i) ==
    IF ~LitAt(Head(parts), s, i) THEN 0
    ELSE LET k == i + Len(Head(parts)) IN
         IF Len(parts) = 1 THEN k - 1
         ELSE IF WsEnd(s, k) < k THEN 0
         ELSE EndOfMatch(Tail(parts), s, WsEnd(s, k) + 1)

\* a match of \b(alt)\b at position i, alt a sequence of parts
WordMatchAt(alt, s, i) ==
    /\ AtBoundary(s, i - 1)
    /\ EndOfMatch(alt, s, i) > 0
    /\ AtBoundary(s, EndOfMatch(alt, s, i))

\* re.search(r"\b(a1|a2|...)\b", s)
ReSearch(alts, s) ==
    \E i \in 1..Len(s) : \E n \in 1..Len(alts) : WordMatchAt(alts[n], s, i)

\* self.temporal_patterns["year_patterns"], r"\b(19|20)\d{2}\b": group 1
YearPrefixes == << <<"1","9">>, <<"2","0">> >>

YearMatchAt(s, i) ==
    /\ AtBoundary(s, i - 1)
    /\ \E n \in 1..Len(YearPrefixes) : LitAt(YearPrefixes[n], s, i)
    /\ i + 3 <= Len(s)
    /\ s[i + 2] \in Range(Digits)
    /\ s[i + 3] \in Range(Digits)
    /\ AtBoundary(s, i + 3)

\* re.findall(year_patterns, query): the pattern has one group, so findall
\* returns what the group matched, once for each match
FindallYears(s) ==
    LET at == SelectSeq(Indexed(s), LAMBDA p : YearMatchAt(s, p[1]))
    IN  [n \in 1..Len(at) |-> SubSeq(s, at[n][1], at[n][1] + 1)]

DigitValue(c) == (CHOOSE i \in 1..Len(Digits) : Digits[i] = c) - 1

\* int(text) on a string of decimal digits
RECURSIVE IntOf(_)
IntOf(text) ==
    IF text = <<>> THEN 0
    ELSE 10 * IntOf(SubSeq(text, 1, Len(text) - 1)) + DigitValue(text[Len(text)])

\* self.temporal_patterns["quarter_patterns"],
\* r"\b(Q[1-4]|first|second|third|fourth)\s+(quarter|Q)\b": the alternatives of
\* the two groups
QuarterNames ==
    << <<"Q","1">>, <<"Q","2">>, <<"Q","3">>, <<"Q","4">>,
       <<"f","i","r","s","t">>, <<"s","e","c","o","n","d">>,
       <<"t","h","i","r","d">>, <<"f","o","u","r","t","h">> >>

QuarterWords == << <<"q","u","a","r","t","e","r">>, <<"Q">> >>

QuarterAlts ==
    [n \in 1..(Len(QuarterNames) * Len(QuarterWords)) |->
        << QuarterNames[((n - 1) \div Len(QuarterWords)) + 1],
           QuarterWords[((n - 1) % Len(QuarterWords)) + 1] >>]

\* re.findall(quarter_patterns, s): one pair (group 1, group 2) for each match
FindallQuarters(s) ==
    LET hit(i) == {n \in 1..Len(QuarterAlts) : WordMatchAt(QuarterAlts[n], s, i)}
        at == SelectSeq(Indexed(s), LAMBDA p : hit(p[1]) # {})
    IN  [n \in 1..Len(at) |-> QuarterAlts[CHOOSE m \in hit(at[n][1]) : TRUE]]

\* self.temporal_patterns["period_patterns"], in the order of the dict: the
\* period type and the alternatives of its pattern
PeriodPatterns ==
    << <<"annual", << << <<"a","n","n","u","a","l">> >>, << <<"y","e","a","r","l","y">> >>,
                      << <<"y","e","a","r","-","o","v","e","r","-","y","e","a","r">> >>,
                      << <<"Y","o","Y">> >> >> >>,
       <<"quarterly", << << <<"q","u","a","r","t","e","r","l","y">> >>,
                         << <<"q","u","a","r","t","e","r">> >>, << <<"Q","o","Q">> >> >> >>,
       <<"recent", << << <<"r","e","c","e","n","t">> >>, << <<"l","a","t","e","s","t">> >>,
                      << <<"c","u","r","r","e","n","t">> >>, << <<"l","a","s","t">> >>,
                      << <<"p","a","s","t">> >> >> >>,
       <<"historical", << << <<"h","i","s","t","o","r","i","c","a","l">> >>,
                          << <<"o","v","e","r">>, <<"t","i","m","e">> >>,
                          << <<"t","r","e","n","d">> >>,
                          << <<"e","v","o","l","u","t","i","o","n">> >> >> >> >>

\* lines 112-115: the first period type whose pattern is found, None if none is
PeriodTypeOf(s) ==
    LET found == {n \in 1..Len(PeriodPatterns) : ReSearch(PeriodPatterns[n][2], s)}
    IN  IF found = {} THEN None
        ELSE PeriodPatterns[CHOOSE n \in found : \A m \in found : n <= m][1]

\* _extract_temporal_info(query), lines 102-116
ExtractTemporalInfo(q) ==
    LET years == FindallYears(q)
    IN  [years |-> [n \in 1..Len(years) |-> IntOf(years[n])],
         quarters |-> FindallQuarters(Lower(q)),
         period_type |-> PeriodTypeOf(Lower(q))]

\* the hash seeds a Python process may start with.  The iteration order of a
\* set of strings depends on the seed, which is drawn anew for each process
\* unless PYTHONHASHSEED fixes it.
HashSeeds == {0, 1}

\* xs without its repeated elements, first occurrences kept
Dedupe(xs) ==
    SelectSeq(Indexed(xs), LAMBDA p : \A j \in 1..(p[1] - 1) : xs[j] # p[2])

Reverse(xs) == [i \in 1..Len(xs) |-> xs[Len(xs) + 1 - i]]

\* list(set(xs)) in a process of hash seed seed: the distinct elements of xs,
\* in an order that is fixed within the process and differs between seeds
ListOfSet(seed, xs) ==
    LET distinct == Chars(Dedupe(xs))
    IN  IF seed = 0 THEN distinct ELSE Reverse(distinct)

\* _extract_tickers(query), lines 88-100
ExtractTickers(q, seed) ==
    LET query_upper == Upper(q)
        query_lower == Lower(q)
        by_symbol == SelectSeq(Companies, LAMBDA c : IsSubstring(c.symbol, query_upper))
        by_name == SelectSeq(Companies,
                             LAMBDA c : IsSubstring(Lower(c.company_name), query_lower))
        tickers == by_symbol \o by_name
    IN  ListOfSet(seed, [i \in 1..Len(tickers) |-> tickers[i].ticker])

\* keyword.lower() for each keyword of each concept
LowerKeywords ==
    [i \in 1..Len(Taxonomy) |->
        [k \in 1..Len(Taxonomy[i].keywords) |-> Lower(Taxonomy[i].keywords[k])]]

\* _map_financial_concepts(query_lower), lines 118-126
MapFinancialConcepts(query_lower) ==
    LET matches(i) == \E k \in 1..Len(LowerKeywords[i]) :
                         IsSubstring(LowerKeywords[i][k], query_lower)
        matched == SelectSeq(Indexed(Taxonomy), LAMBDA p : matches(p[1]))
    IN  [i \in 1..Len(matched) |-> matched[i][2].concept]

\* self.taxonomy[concept]
TaxonomyOf(concept) ==
    Taxonomy[CHOOSE i \in 1..Len(Taxonomy) : Taxonomy[i].concept = concept]

\* _get_relevant_sections(financial_concepts), lines 128-134
GetRelevantSections(financial_concepts, seed) ==
    ListOfSet(seed, Flatten([i \in 1..Len(financial_concepts) |->
                                TaxonomyOf(financial_concepts[i]).sec_sections]))

\* _get_filing_types(financial_concepts, temporal_info), lines 136-147
GetFilingTypes(financial_concepts, temporal_info, seed) ==
    LET of_concepts == Flatten([i \in 1..Len(financial_concepts) |->
                                   TaxonomyOf(financial_concepts[i]).filing_types])
        of_period == IF temporal_info.period_type = "annual" THEN <<"10-K">>
                     ELSE IF temporal_info.period_type = "quarterly" THEN <<"10-Q">>
                     ELSE <<>>
    IN  ListOfSet(seed, of_concepts \o of_period)

RankingFactors == <<"semantic_similarity", "section_relevance", "temporal_relevance">>

\* the concepts that keep a one-concept question on the semantic search
SemanticOnlyConcepts == {"revenue_performance", "risk_factors"}

\* line 153-156
SearchType(financial_concepts, temporal_info) ==
    IF Len(financial_concepts) = 1 /\ financial_concepts[1] \in SemanticOnlyConcepts
    THEN "semantic"
    ELSE IF temporal_info.years # <<>> \/ temporal_info.quarters # <<>>
    THEN "hybrid" ELSE "semantic"

\* _determine_search_strategy(financial_concepts, temporal_info), lines 149-160;
\* filters is the list of the items of the dict
DetermineSearchStrategy(financial_concepts, temporal_info) ==
    [search_type |-> SearchType(financial_concepts, temporal_info),
     filters |-> IF temporal_info.years # <<>>
                 THEN << <<"years", temporal_info.years>> >> ELSE <<>>,
     ranking_factors |-> RankingFactors]

\* parse_query(query), lines 74-86, in a process of hash seed seed
ParseQuery(q, seed) ==
    LET query_lower == Lower(q)
        temporal_info == ExtractTemporalInfo(q)
        financial_concepts == MapFinancialConcepts(query_lower)
    IN  [original_query |-> q,
         tickers |-> ExtractTickers(q, seed),
         temporal_info |-> temporal_info,
         financial_concepts |-> financial_concepts,
         relevant_sections |-> GetRelevantSections(financial_concepts, seed),
         filing_types |-> GetFilingTypes(financial_concepts, temporal_info, seed),
         search_strategy |-> DetermineSearchStrategy(financial_concepts, temporal_info)]

\* ---- the questions of the parsing specification

MaxPhrases == 2

\* the phrases questions are put together from
Phrases ==
    { <<"A","A","P","L">>, <<"c","a","t","e","g","o","r","y">>,
      <<"r","i","s","k"," ","f","a","c","t","o","r","s">>, <<"r","e","v","e","n","u","e">>,
      <<"2","0","2","2">>, <<"Q","1">>, <<"f","i","r","s","t"," ","q","u","a","r","t","e","r">> }

\* "Apple's risk factors in 2022"
ExampleQuery ==
    <<"A","p","p","l","e","'","s"," ","r","i","s","k"," ","f","a","c","t","o","r","s"," ",
      "i","n"," ","2","0","2","2">>

Queries ==
    {IF ps = <<>> THEN <<>> ELSE Join(ps) : ps \in SeqsUpTo(Phrases, MaxPhrases)}
        \cup {ExampleQuery}

\* the processes that hold a FinancialTaxonomy, and the calls each makes
Procs == {1, 2}
MaxCalls == 2

ParseInit ==
    /\ query \in Queries
    /\ hash_seed \in [Procs -> HashSeeds]
    /\ intent = [p \in Procs |-> <<>>]

\* process p calls parse_query(query) on its taxonomy; intent[p] lists what its
\* calls returned
CallParseQuery(p) ==
    /\ Len(intent[p]) < MaxCalls
    /\ intent' = [intent EXCEPT ![p] = Append(@, ParseQuery(query, hash_seed[p]))]
    /\ UNCHANGED <<query, hash_seed>>
    /\ UNCHANGED <<scoreVars, engineVars, chunkVars, sectVars, corpusVars, storeVars>>

InitParse == ParseInit /\ ScoreIdle /\ EngineIdle /\ ChunkIdle /\ SectIdle /\ CorpusIdle /\ StoreIdle
NextParse == \E p \in Procs : CallParseQuery(p)
SpecParse == InitParse /\ [][NextParse]_vars

\* ---- questions made of period cues

\* cue phrases of the four period types, as questions spell them, and a phrase
\* with no cue
CuePhrases ==
    { <<"a","n","n","u","a","l">>, <<"Y","o","Y">>,
      <<"q","u","a","r","t","e","r","l","y">>, <<"Q","o","Q">>,
      <<"l","a","t","e","s","t">>, <<"t","r","e","n","d">>,
      <<"o","v","e","r"," ","t","i","m","e">>, <<"g","r","o","w","t","h">> }

CueQueries ==
    {IF ps = <<>> THEN <<>> ELSE Join(ps) : ps \in SeqsUpTo(CuePhrases, MaxPhrases)}

InitPeriod ==
    /\ query \in CueQueries
    /\ hash_seed \in [Procs -> HashSeeds]
    /\ intent = [p \in Procs |-> <<>>]
    /\ ScoreIdle /\ EngineIdle /\ ChunkIdle /\ SectIdle /\ CorpusIdle /\ StoreIdle
SpecPeriod == InitPeriod /\ [][NextParse]_vars


\* ------------------------------------------------------------------ SECDocumentProcessor.run
\* preprocessing.py:95-165 and 198-228.  File contents are documents in pieces,
\* as for extract_sections; they hold no markup, so that BeautifulSoup's
\* get_text() (line 109) and the tag removal of line 75 leave them as they are.

\* len(content) < 200, line 111
MinContentLen == 200

\* a piece as the words and blanks it is written with
Fragments(piece) ==
    CASE piece = "item 1a. risk factors" -> <<"item", " ", "1a.", " ", "risk", " ", "factors">>
      [] piece = "item 1. business" -> <<"item", " ", "1.", " ", "business">>
      [] piece = "item 8. financial statements" ->
             <<"item", " ", "8.", " ", "financial", " ", "statements">>
      [] OTHER -> <<piece>>

\* the characters of a fragment; a block "X" stands for BlockLen characters
\* that occur in no keyword of the taxonomy, and is written here with one
FragmentText(f) ==
    CASE f = "item" -> <<"i","t","e","m">>
      [] f = "1a." -> <<"1","a",".">>
      [] f = "1." -> <<"1",".">>
      [] f = "8." -> <<"8",".">>
      [] f = "risk" -> <<"r","i","s","k">>
      [] f = "factors" -> <<"f","a","c","t","o","r","s">>
      [] f = "business" -> <<"b","u","s","i","n","e","s","s">>
      [] f = "financial" -> <<"f","i","n","a","n","c","i","a","l">>
      [] f = "statements" -> <<"s","t","a","t","e","m","e","n","t","s">>
      [] f = " " -> <<" ">>
      [] f = "X" -> <<"#">>

\* len() of a fragment
FragmentLen(f) == IF f = "X" THEN BlockLen ELSE Len(FragmentText(f))

\* len(word), word a sequence of fragments
RECURSIVE WordSize(_)
WordSize(word) ==
    IF word = <<>> THEN 0 ELSE FragmentLen(Head(word)) + WordSize(Tail(word))

\* lines 75-79 on a text in pieces: content.split() after the cleaning, each
\* word the fragments between two runs of blanks
WordsOf(text) ==
    LET fs == Flatten([i \in 1..Len(text) |-> Fragments(text[i])])
        starts == SelectSeq(Indexed(fs),
                            LAMBDA p : p[2] # " " /\ (p[1] = 1 \/ fs[p[1] - 1] = " "))
        stop(a) == IF \E k \in a..Len(fs) : fs[k] = " "
                   THEN (CHOOSE k \in a..Len(fs) :
                            fs[k] = " " /\ \A m \in a..(k - 1) : fs[m] # " ") - 1
                   ELSE Len(fs)
    IN  [n \in 1..Len(starts) |-> SubSeq(fs, starts[n][1], stop(starts[n][1]))]

\* lines 80-89: chunks, current_chunk and current_size after the first n words
RECURSIVE PackedAfter(_, _, _)
PackedAfter(n, ws, limit) ==
    IF n = 0 THEN [chunks |-> <<>>, current_chunk |-> <<>>, current_size |-> 0]
    ELSE LET before == PackedAfter(n - 1, ws, limit)
             word == ws[n]
             word_len == WordSize(word) + 1
         IN  IF Exceeds(before.current_size + word_len, limit) /\ before.current_chunk # <<>>
             THEN [chunks |-> Append(before.chunks, Join(before.current_chunk)),
                   current_chunk |-> Restart(word),
                   current_size |-> WordSize(word)]
             ELSE [chunks |-> before.chunks,
                   current_chunk |-> Append(before.current_chunk, word),
                   current_size |-> before.current_size + word_len]

\* clean_and_chunk(text), lines 74-93, on a text in pieces, max_size at its
\* default: the chunks, each the fragments of its words with one blank
\* between two words
CleanAndChunk(text) ==
    LET ws == WordsOf(text)
        packed == PackedAfter(Len(ws), ws, DefaultMaxSize)
    IN  IF packed.current_chunk # <<>>
        THEN Append(packed.chunks, Join(packed.current_chunk))
        ELSE packed.chunks

\* tag_concepts(content), lines 95-101
TagConcepts(chunk_content) ==
    MapFinancialConcepts(
        Lower(Flatten([i \in 1..Len(chunk_content) |-> FragmentText(chunk_content[i])])))

\* len(chunk_content.split()), line 135
WordCount(chunk_content) == Len(WordsOf(chunk_content))

\* no year in the file name: estimated_year = None
NoYear == 0 - 1

\* lines 115-116: re.search(r'(\d{4})', file_path.name) and int() of the group
EstimatedYear(name) ==
    LET at == {i \in 1..(Len(name) - 3) : \A k \in 0..3 : name[i + k] \in Range(Digits)}
    IN  IF at = {} THEN NoYear
        ELSE IntOf(SubSeq(name, FirstOf(at), FirstOf(at) + 3))

\* line 133: f"{ticker}_{filing_type}_{estimated_year}_{chunk_counter}", kept as
\* the four values the string is formatted from
ChunkId(ticker, filing_type, estimated_year, chunk_counter) ==
    <<ticker, filing_type, estimated_year, chunk_counter>>

\* lines 118-138: the chunks of the sections, numbered through the file
ChunksOfSections(sects, ticker, filing_type, estimated_year) ==
    LET pairs == Flatten([k \in 1..Len(sects) |->
                     LET section_chunks == CleanAndChunk(sects[k].content)
                     IN  [j \in 1..Len(section_chunks) |-> <<sects[k].name, section_chunks[j]>>]])
    IN  [n \in 1..Len(pairs) |->
            [content |-> pairs[n][2],
             ticker |-> ticker,
             filing_type |-> filing_type,
             section |-> pairs[n][1],
             estimated_year |-> estimated_year,
             chunk_id |-> ChunkId(ticker, filing_type, estimated_year, n - 1),
             financial_concepts |-> TagConcepts(pairs[n][2]),
             word_count |-> WordCount(pairs[n][2])]]

\* lines 141-143: what process_file returns when an exception reached its
\* handler, so_far being the chunks built until then
OnErrorKeep(so_far) == so_far

OnError(so_far) == <<>>

\* process_file(file_path, ticker, filing_type), lines 103-143.  file.raises
\* names the statement of the try block that raises for this file: "open"
\* (line 105), "chunk" (line 122, in the second section) or "none".
ProcessFileOf(file, ticker) ==
    IF file.raises = "open" THEN OnError(<<>>)
    ELSE IF CharLen(file.content) < MinContentLen THEN <<>>
    ELSE LET sects == ExtractSectionsOf(file.content)
             estimated_year == EstimatedYear(file.name)
         IN  IF file.raises = "chunk" /\ Len(sects) >= 2
             THEN OnError(ChunksOfSections(SubSeq(sects, 1, 1), ticker,
                                           file.filing_type, estimated_year))
             ELSE ChunksOfSections(sects, ticker, file.filing_type, estimated_year)

\* ---- the raw data directories of the corpus specification

MaxFiles == 2

\* a filing of two sections, Risk Factors and Business
TwoSections ==
    <<"item 1a. risk factors", " ", "X", "X", "X", " ",
      "item 1. business", " ", "X", "X", "X">>

\* a filing whose only marker ends it: eleven blocks, one blank between two,
\* then the marker of a section that stays empty
LongPlain ==
    [i \in 1..21 |-> IF i % 2 = 1 THEN "X" ELSE " "] \o <<" ", "item 1a. risk factors">>

\* a file of fewer than MinContentLen characters
TooShort == <<"X", " ", "item 1a. risk factors">>

\* the files a filing-type directory may hold: the name, the directory it lies
\* in, its content and the statement that raises when it is processed
Files ==
    { [name |-> <<"a","2","0","2","2",".","h","t","m","l">>, filing_type |-> "10-K",
       content |-> TwoSections, raises |-> "none"],
      [name |-> <<"b","-","2","0","2","2","1","2","3","1",".","x","m","l">>,
       filing_type |-> "10-K", content |-> LongPlain, raises |-> "none"],
      [name |-> <<"c","2","0","2","2",".","h","t","m","l">>, filing_type |-> "10-K",
       content |-> TwoSections, raises |-> "open"],
      [name |-> <<"d","2","0","2","2",".","h","t","m","l">>, filing_type |-> "10-K",
       content |-> TwoSections, raises |-> "chunk"],
      [name |-> <<"e",".","h","t","m","l">>, filing_type |-> "10-Q",
       content |-> TooShort, raises |-> "none"] }

\* the companies run() goes through: the first keys of COMPANIES
Tickers == <<"AAPL", "MSFT">>

\* whether the file name ends in .html
IsHtml(name) == SubSeq(name, Len(name) - 4, Len(name)) = <<".","h","t","m","l">>

\* the listings of a company directory in the order process_company visits
\* them (line 158: the .html files of a directory before its .xml files), no
\* file twice; exists = FALSE is a company without a directory (line 147)
CompanyDirs ==
    {[exists |-> FALSE, files |-> <<>>]}
    \cup {[exists |-> TRUE, files |-> fs] : fs \in
            {gs \in SeqsUpTo(Files, MaxFiles) :
                /\ \A i, j \in 1..Len(gs) : i # j => gs[i] # gs[j]
                /\ \A i, j \in 1..Len(gs) :
                      (i < j /\ gs[i].filing_type = gs[j].filing_type /\ IsHtml(gs[j].name))
                          => IsHtml(gs[i].name)}}

NoSummary == 0 - 1

CorpusInit ==
    /\ raw_data \in [1..Len(Tickers) -> CompanyDirs]
    /\ ticker_i = 0
    /\ file_i = 0
    /\ all_chunks = <<>>
    /\ run_chunks = <<>>
    /\ saved = [processed |-> [i \in 1..Len(Tickers) |-> <<>>], summary |-> NoSummary]
    /\ run_pc = "run"

\* run(), line 205, and process_company(ticker), lines 146-151: the next
\* company is entered; without a directory it gives no chunks at once
EnterCompany ==
    /\ run_pc = "run"
    /\ ticker_i < Len(Tickers)
    /\ IF raw_data[ticker_i + 1].exists
       THEN /\ run_pc' = "company"
            /\ all_chunks' = <<>>
            /\ file_i' = 0
            /\ UNCHANGED ticker_i
       ELSE /\ ticker_i' = ticker_i + 1
            /\ UNCHANGED <<run_pc, all_chunks, file_i>>
    /\ UNCHANGED <<raw_data, run_chunks, saved>>
    /\ UNCHANGED <<scoreVars, engineVars, chunkVars, sectVars, parseVars, storeVars>>

\* process_company, lines 160-162: one file of the company
ProcessFile ==
    /\ run_pc = "company"
    /\ file_i < Len(raw_data[ticker_i + 1].files)
    /\ all_chunks' = all_chunks \o ProcessFileOf(raw_data[ticker_i + 1].files[file_i + 1],
                                                 Tickers[ticker_i + 1])
    /\ file_i' = file_i + 1
    /\ UNCHANGED <<raw_data, ticker_i, run_chunks, saved, run_pc>>
    /\ UNCHANGED <<scoreVars, engineVars, chunkVars, sectVars, parseVars, storeVars>>

\* process_company returns, line 165, and run() saves and gathers its chunks,
\* lines 207-210
LeaveCompany ==
    /\ run_pc = "company"
    /\ file_i = Len(raw_data[ticker_i + 1].files)
    /\ IF all_chunks # <<>>
       THEN /\ saved' = [saved EXCEPT !.processed[ticker_i + 1] = all_chunks]
            /\ run_chunks' = run_chunks \o all_chunks
       ELSE UNCHANGED <<saved, run_chunks>>
    /\ ticker_i' = ticker_i + 1
    /\ run_pc' = "run"
    /\ UNCHANGED <<raw_data, file_i, all_chunks>>
    /\ UNCHANGED <<scoreVars, engineVars, chunkVars, sectVars, parseVars, storeVars>>

\* lines 186-195 of create_summary: the years of the chunks, None and 0 left out
YearsCovered(cs) == {cs[i].estimated_year : i \in 1..Len(cs)} \ {NoYear, 0}

\* run(), lines 212-228: the summary is written, then printed; min() of line
\* 222 raises ValueError when no chunk carries a year
Summarize ==
    /\ run_pc = "run"
    /\ ticker_i = Len(Tickers)
    /\ saved' = [saved EXCEPT !.summary = Len(run_chunks)]
    /\ run_pc' = IF YearsCovered(run_chunks) = {} THEN "raised" ELSE "returned"
    /\ UNCHANGED <<raw_data, ticker_i, file_i, all_chunks, run_chunks>>
    /\ UNCHANGED <<scoreVars, engineVars, chunkVars, sectVars, parseVars, storeVars>>

InitCorpus == CorpusInit /\ ScoreIdle /\ EngineIdle /\ ChunkIdle /\ SectIdle /\ ParseIdle /\ StoreIdle
NextCorpus == EnterCompany \/ ProcessFile \/ LeaveCompany \/ Summarize
SpecCorpus == InitCorpus /\ [][NextCorpus]_vars

\* ------------------------------------------------------------------ claims on the corpus

\* C11: across the whole corpus produced by processing any set of files for
\* any companies, no two DocumentChunks have the same chunk_id.
C11_UniqueChunkIds ==
    \A i, j \in 1..Len(run_chunks) :
        i # j => run_chunks[i].chunk_id # run_chunks[j].chunk_id

\* the chunks of a file that is read and processed without an error
ChunksOfFile(file, ticker) == ProcessFileOf([file EXCEPT !.raises = "none"], ticker)

\* what the files of company i are to contribute: nothing for a file that
\* raises, its chunks for any other
DueOfCompany(i) ==
    LET fs == raw_data[i].files
    IN  Flatten([k \in 1..Len(fs) |->
                    IF fs[k].raises # "none" THEN <<>> ELSE ChunksOfFile(fs[k], Tickers[i])])

\* C12: an error while reading or processing one file yields zero chunks for
\* that file and never aborts the run: every other file of every company is
\* still processed and its chunks appear in the output in order.
C12_ErrorsSkipOnlyTheFile ==
    /\ run_pc \in {"run", "company", "returned", "raised"}
    /\ run_pc \in {"returned", "raised"} =>
          /\ ticker_i = Len(Tickers)
          /\ run_chunks = Flatten([i \in 1..Len(Tickers) |-> DueOfCompany(i)])
          /\ \A i \in 1..Len(Tickers) : saved.processed[i] = DueOfCompany(i)
    /\ \A i \in 1..ticker_i : saved.processed[i] = DueOfCompany(i)

\* a run over a company whose first file raises after its first section was
\* chunked and whose second file is processed, and a second company with a
\* file that cannot be opened
C12_Witness ==
    /\ run_pc = "returned"
    /\ Len(raw_data[1].files) = 2
    /\ raw_data[1].files[1].raises = "chunk"
    /\ raw_data[1].files[2].raises = "none"
    /\ saved.processed[1] # <<>>
    /\ saved.processed[1] = ChunksOfFile(raw_data[1].files[2], Tickers[1])
    /\ Len(raw_data[2].files) = 2
    /\ raw_data[2].files[1].raises = "open"
    /\ saved.processed[2] # <<>>

\* ------------------------------------------------------------------ claims on parse_query

\* the intents the calls made so far returned
Intents == UNION {Range(intent[p]) : p \in Procs}

\* C13: parse_query("Apple's risk factors in 2022") yields tickers = ["AAPL"],
\* temporal_info.years = [2022] and financial_concepts including risk_factors.
C13_ExampleIntent ==
    query = ExampleQuery =>
        \A r \in Intents :
            /\ r.tickers = <<"AAPL">>
            /\ r.temporal_info.years = <<2022>>
            /\ "risk_factors" \in Range(r.financial_concepts)

\* the display names of the companies, in the order of Companies, as the
\* specification speaks of them; COMPANIES holds CIK numbers and no names
DisplayNames ==
    << <<"A","p","p","l","e">>,
       <<"M","i","c","r","o","s","o","f","t">>,
       <<"N","v","i","d","i","a">>,
       <<"J","P","M","o","r","g","a","n">>,
       <<"T","e","s","l","a">>,
       <<"J","o","h","n","s","o","n"," ","&"," ","J","o","h","n","s","o","n">>,
       <<"P","f","i","z","e","r">>,
       <<"W","a","l","m","a","r","t">>,
       <<"A","m","a","z","o","n">>,
       <<"E","x","x","o","n">>,
       <<"C","a","t","e","r","p","i","l","l","a","r">> >>

\* the symbol stands in q as a token of its own, in upper case
IsUppercaseToken(symbol, q) == \E i \in 1..Len(q) : WordMatchAt(<<symbol>>, q, i)

\* the tickers the question refers to, by symbol or by display name
ReferredTickers(q) ==
    {Companies[i].ticker : i \in
        {j \in 1..Len(Companies) :
            \/ IsUppercaseToken(Companies[j].symbol, q)
            \/ IsSubstring(Lower(DisplayNames[j]), Lower(q))}}

\* C14: the tickers parse_query returns are exactly the known tickers that
\* appear in the question as an uppercase token or whose company display name
\* occurs in it case-insensitively, without duplicates; a ticker that is only
\* a substring of a longer or lowercase word is not returned.
C14_TickersExact ==
    \A r \in Intents :
        /\ Range(r.tickers) = ReferredTickers(query)
        /\ Len(r.tickers) = Cardinality(Range(r.tickers))

\* the 4-digit calendar-year tokens (19xx, 20xx) of q, as integers, in order
YearTokens(q) ==
    LET at == SelectSeq(Indexed(q), LAMBDA p : YearMatchAt(q, p[1]))
    IN  [n \in 1..Len(at) |-> IntOf(SubSeq(q, at[n][1], at[n][1] + 3))]

\* C15: temporal_info.years is the list of the 4-digit calendar-year tokens
\* of the question, each as its full four-digit integer value, in order of
\* occurrence.
C15_YearsFullValue ==
    \A r \in Intents : r.temporal_info.years = YearTokens(query)

\* q mentions a quarter: "Q1".."Q4" as a token, or an ordinal word followed
\* by "quarter"
MentionsQuarter(q) ==
    \/ \E i \in 1..Len(q) : \E n \in 1..4 : WordMatchAt(<<QuarterNames[n]>>, q, i)
    \/ \E i \in 1..Len(q) : \E n \in 5..8 :
           WordMatchAt(<<QuarterNames[n], QuarterWords[1]>>, Lower(q), i)

\* C16: for every question that mentions a quarter as "Q1".."Q4" or as an
\* ordinal word (first..fourth) followed by "quarter", parse_query returns a
\* non-empty temporal_info.quarters.
C16_QuarterMentions ==
    MentionsQuarter(query) => \A r \in Intents : r.temporal_info.quarters # <<>>

\* C17: search_type is "hybrid" whenever a year or a quarter was extracted,
\* whatever concepts matched, and "semantic" otherwise; the extracted years
\* are recorded in filters.years in either mode.
C17_HybridOnTemporal ==
    \A r \in Intents :
        /\ r.search_strategy.search_type =
              (IF r.temporal_info.years # <<>> \/ r.temporal_info.quarters # <<>>
               THEN "hybrid" ELSE "semantic")
        /\ r.temporal_info.years # <<>> =>
              r.search_strategy.filters = << <<"years", r.temporal_info.years>> >>

\* C18: parse_query is deterministic: calls with the same question, on the
\* same taxonomy or on taxonomies of separately started processes, return the
\* same intent in every field.
C18_SameIntent ==
    \A r1, r2 \in Intents : r1 = r2

\* ------------------------------------------------------------------ EmbeddingEngine: the persisted index

\* A file of the index directory: absent, opened for writing and not yet
\* written out, or complete.  data is the chunk list of the build that wrote
\* the file: embeddings.npy holds its embeddings, index.bin the index over
\* them, metadata.pkl the list itself.
NoFile == [state |-> "absent", data |-> <<>>]
PartialFile(cs) == [state |-> "partial", data |-> cs]
CompleteFile(cs) == [state |-> "complete", data |-> cs]

\* line 43-45; save_index writes them in this order
Artifacts == <<"embeddings", "index", "metadata">>

\* Path.exists()
Exists(f) == f.state # "absent"

\* line 93
AllExist == \A i \in 1..Len(Artifacts) : Exists(disk[Artifacts[i]])

\* build_index(embeddings): vector i embeds chunk i of the list
BuildIndex(cs) == [loaded |-> TRUE, ntotal |-> Len(cs), vectors |-> cs]

\* the processed corpora {ticker}_processed.json may hold
StoreCorpora ==
    LET k1 == CHOOSE k \in ChunkKinds : k.ticker = "AAPL"
        k2 == CHOOSE k \in ChunkKinds : k.ticker = "MSFT"
    IN  { <<>>, <<WithId(k1, 0)>>, <<WithId(k2, 0), WithId(k1, 1)>> }

\* the keys of a chunk dict, in the order json.load gives them
ChunkKeys ==
    <<"content", "ticker", "filing_type", "section", "chunk_id", "financial_concepts">>

\* pickle.dump(chunks, f), line 88-89: the stream of a list of dicts: the list
\* is opened, every dict follows with its items in the dict's order, the list
\* is filled in the order of the stream and STOP ends it
PickleDump(cs) ==
    <<[opcode |-> "EMPTY_LIST", arg |-> <<>>], [opcode |-> "MARK", arg |-> <<>>]>>
    \o [i \in 1..Len(cs) |->
          [opcode |-> "DICT",
           arg |-> [j \in 1..Len(ChunkKeys) |-> <<ChunkKeys[j], cs[i][ChunkKeys[j]]>>]]]
    \o <<[opcode |-> "APPENDS", arg |-> <<>>], [opcode |-> "STOP", arg |-> <<>>]>>

\* SETITEMS: the dict of a sequence of items, a later item replacing an earlier
\* one of the same key
DictOf(items) ==
    [k \in {items[j][1] : j \in 1..Len(items)} |->
        LET last == CHOOSE j \in 1..Len(items) :
                        /\ items[j][1] = k
                        /\ \A m \in 1..Len(items) : items[m][1] = k => m <= j
        IN  items[last][2]]

IsDict(e) == e.opcode = "DICT"

PickleLoadReversed(stream) ==
    LET dicts == SelectSeq(stream, IsDict)
    IN  [i \in 1..Len(dicts) |-> DictOf(dicts[Len(dicts) + 1 - i].arg)]

\* pickle.load(f), line 98-99, of a stream that ends with STOP
PickleLoad(stream) ==
    LET dicts == SelectSeq(stream, IsDict)
    IN  [i \in 1..Len(dicts) |-> DictOf(dicts[i].arg)]

\* what metadata.pkl holds once the build's write is done
MetadataStream(f) == PickleDump(f.data)

\* the outcome of a call: what it returned or the exception it raised
NoOutcome == [status |-> "none", error |-> "", value |-> "", items |-> <<>>]
Raises(e) == [status |-> "raised", error |-> e, value |-> "", items |-> <<>>]
Returns(v) == [status |-> "returned", error |-> "", value |-> v, items |-> <<>>]
ReturnsList(rs) == [status |-> "returned", error |-> "", value |-> "list", items |-> rs]

\* no call running
NoOp == [name |-> "none"]
\* a running call, with the engine's fields as the call found them
Op(name, force_rebuild) ==
    [name |-> name, force_rebuild |-> force_rebuild,
     index |-> index, chunks_data |-> chunks_data]

\* faiss.read_index on a file that was not written out
ReadIndexError == "RuntimeError: read_index"
\* pickle.load on a file that was not written out
UnpicklingError == "EOFError: pickle.load"
\* index.search(x, 0): newer faiss wrappers assert k > 0
FaissKError == "AssertionError: k > 0"

otherStore == <<scoreVars, chunkVars, sectVars, corpusVars, parseVars, call, results>>

\* what a search in the second thread has read: the index it searched
\* (line 130), the chunk list it indexed into (line 129, 137), the candidates
\* faiss gave it and how it ended
NoSeen ==
    [top_k |-> 0, index |-> NoIndex, chunks_data |-> <<>>, candidates |-> <<>>,
     outcome |-> NoOutcome]
searchVars == <<search_pc, seen>>

StoreInit ==
    /\ disk = [corpus |-> <<>>, embeddings |-> NoFile, index |-> NoFile, metadata |-> NoFile]
    /\ op = NoOp /\ op_pc = "idle" /\ built = <<>> /\ outcome = NoOutcome
    /\ index = NoIndex /\ chunks_data = <<>>
    /\ search_pc = "idle" /\ seen = NoSeen
    /\ call = NoCall /\ results = NoResults

\* preprocessing writes the processed corpus anew
Preprocess ==
    /\ op_pc = "idle"
    /\ \E cs \in StoreCorpora \ {disk.corpus} : disk' = [disk EXCEPT !.corpus = cs]
    /\ UNCHANGED <<op, op_pc, built, outcome, index, chunks_data>>
    /\ UNCHANGED <<searchVars, otherStore>>

\* engine.load_index()
CallLoadIndex ==
    /\ op_pc = "idle"
    /\ op' = Op("load_index", FALSE)
    /\ op_pc' = "exists"
    /\ UNCHANGED <<disk, built, outcome, index, chunks_data>>
    /\ UNCHANGED <<searchVars, otherStore>>

\* engine.initialize(force_rebuild): line 156
CallInitialize ==
    /\ op_pc = "idle"
    /\ \E force_rebuild \in BOOLEAN :
          /\ op' = Op("initialize", force_rebuild)
          /\ op_pc' = IF force_rebuild THEN "load_chunks" ELSE "exists"
    /\ UNCHANGED <<disk, built, outcome, index, chunks_data>>
    /\ UNCHANGED <<searchVars, otherStore>>

\* load_index, line 93-94
LoadIndexExists ==
    /\ op_pc = "exists"
    /\ IF AllExist
       THEN op_pc' = "read_index" /\ UNCHANGED outcome
       ELSE op_pc' = "load_returned" /\ outcome' = Returns("False")
    /\ UNCHANGED <<disk, op, built, index, chunks_data>>
    /\ UNCHANGED <<searchVars, otherStore>>

\* load_index, line 97: the assignment happens only if read_index returns
LoadIndexReadIndex ==
    /\ op_pc = "read_index"
    /\ IF disk.index.state = "complete"
       THEN /\ index' = BuildIndex(disk.index.data)
            /\ op_pc' = "read_metadata"
            /\ UNCHANGED outcome
       ELSE /\ outcome' = Raises(ReadIndexError)
            /\ op_pc' = "load_returned"
            /\ UNCHANGED index
    /\ UNCHANGED <<disk, op, built, chunks_data>>
    /\ UNCHANGED <<searchVars, otherStore>>

\* load_index, line 98-101
LoadIndexReadMetadata ==
    /\ op_pc = "read_metadata"
    /\ IF disk.metadata.state = "complete"
       THEN /\ chunks_data' = PickleLoad(MetadataStream(disk.metadata))
            /\ outcome' = Returns("True")
       ELSE /\ outcome' = Raises(UnpicklingError)
            /\ UNCHANGED chunks_data
    /\ op_pc' = "load_returned"
    /\ UNCHANGED <<disk, op, built, index>>
    /\ UNCHANGED <<searchVars, otherStore>>

\* initialize, line 156-157, once load_index is back
InitializeAfterLoad ==
    /\ op_pc = "load_returned"
    /\ op.name = "initialize"
    /\ \/ /\ outcome = Returns("True")
          /\ outcome' = Returns("None")
          /\ op_pc' = "done"
       \/ /\ outcome = Returns("False")
          /\ outcome' = NoOutcome
          /\ op_pc' = "load_chunks"
       \/ /\ outcome.status = "raised"
          /\ op_pc' = "done"
          /\ UNCHANGED outcome
    /\ UNCHANGED <<disk, op, built, index, chunks_data>>
    /\ UNCHANGED <<searchVars, otherStore>>

\* initialize, line 160-162
InitializeLoadChunks ==
    /\ op_pc = "load_chunks"
    /\ IF disk.corpus = <<>>
       THEN /\ outcome' = Raises(NoChunksError)
            /\ op_pc' = "done"
            /\ UNCHANGED built
       ELSE /\ built' = [chunks |-> disk.corpus, artifact |-> 1]
            /\ op_pc' = "build_index"
            /\ UNCHANGED outcome
    /\ UNCHANGED <<disk, op, index, chunks_data>>
    /\ UNCHANGED <<searchVars, otherStore>>

\* initialize, line 164-165
InitializeBuildIndex ==
    /\ op_pc = "build_index"
    /\ index' = BuildIndex(built.chunks)
    /\ op_pc' = "set_chunks_data"
    /\ UNCHANGED <<disk, op, built, outcome, chunks_data>>
    /\ UNCHANGED <<searchVars, otherStore>>

\* initialize, line 166
InitializeSetChunksData ==
    /\ op_pc = "set_chunks_data"
    /\ chunks_data' = built.chunks
    /\ op_pc' = "open"
    /\ UNCHANGED <<disk, op, built, outcome, index>>
    /\ UNCHANGED <<searchVars, otherStore>>

\* save_index, line 86, 87, 88: the file is created or truncated
SaveIndexOpen ==
    /\ op_pc = "open"
    /\ disk' = [disk EXCEPT ![Artifacts[built.artifact]] = PartialFile(built.chunks)]
    /\ op_pc' = "write"
    /\ UNCHANGED <<op, built, outcome, index, chunks_data>>
    /\ UNCHANGED <<searchVars, otherStore>>

\* save_index, line 86, 87, 89: the file is written out and closed; after the
\* last one initialize returns (line 168)
SaveIndexWrite ==
    /\ op_pc = "write"
    /\ disk' = [disk EXCEPT ![Artifacts[built.artifact]] = CompleteFile(built.chunks)]
    /\ IF built.artifact < Len(Artifacts)
       THEN /\ built' = [built EXCEPT !.artifact = @ + 1]
            /\ op_pc' = "open"
            /\ UNCHANGED outcome
       ELSE /\ outcome' = Returns("None")
            /\ op_pc' = "done"
            /\ UNCHANGED built
    /\ UNCHANGED <<op, index, chunks_data>>
    /\ UNCHANGED <<searchVars, otherStore>>

\* search(query, top_k), line 121-153
EngineSearch ==
    /\ op_pc = "idle"
    /\ op' = Op("search", FALSE)
    /\ op_pc' = "done"
    /\ \E k \in 1..MaxTopK, q \in SearchQueries :
          IF ~index.loaded
          THEN outcome' = Raises(NotLoadedError)
          ELSE LET search_k == SearchK(k, Len(chunks_data)) IN
               IF search_k = 0
               THEN outcome' \in {Raises(FaissKError), ReturnsList(<<>>)}
               ELSE \E cands \in FaissSearch(index.ntotal, search_k) :
                       outcome' =
                          IF \E i \in 1..Len(cands) :
                                 PassesFloor(cands[i][1]) /\ cands[i][2] >= Len(chunks_data)
                          THEN Raises(IndexRangeError)
                          ELSE ReturnsList(RankAndTruncate(
                                   CollectResults(cands, q, chunks_data), k))
    /\ UNCHANGED <<disk, built, index, chunks_data>>
    /\ UNCHANGED <<searchVars, otherStore>>

\* the caller takes the outcome of the call
ReturnToCaller ==
    /\ \/ op_pc = "done"
       \/ op_pc = "load_returned" /\ op.name = "load_index"
    /\ op' = NoOp /\ op_pc' = "idle" /\ built' = <<>> /\ outcome' = NoOutcome
    /\ UNCHANGED <<disk, index, chunks_data>>
    /\ UNCHANGED <<searchVars, otherStore>>

\* search(query, top_k) in a second thread while initialize runs in the first,
\* line 122-130: the guard, search_k and index.search
ThreadSearchIndex ==
    /\ search_pc = "idle"
    /\ op.name = "initialize" /\ op_pc # "done"
    /\ \E k \in 1..MaxTopK :
          LET search_k == SearchK(k, Len(chunks_data))
              read == [top_k |-> k, index |-> index, chunks_data |-> chunks_data,
                       candidates |-> <<>>, outcome |-> NoOutcome]
          IN  IF ~index.loaded
              THEN /\ seen' = [read EXCEPT !.outcome = Raises(NotLoadedError)]
                   /\ search_pc' = "done"
              ELSE IF search_k = 0
              THEN /\ \E o \in {Raises(FaissKError), ReturnsList(<<>>)} :
                         seen' = [read EXCEPT !.outcome = o]
                   /\ search_pc' = "done"
              ELSE /\ \E cands \in FaissSearch(index.ntotal, search_k) :
                         seen' = [read EXCEPT !.candidates = cands]
                   /\ search_pc' = "collect"
    /\ UNCHANGED <<disk, op, op_pc, built, outcome, index, chunks_data>>
    /\ UNCHANGED otherStore

\* the same search, line 132-153: the loop reads self.chunks_data as it is now
ThreadSearchCollect ==
    /\ search_pc = "collect"
    /\ \E q \in SearchQueries :
          seen' = [seen EXCEPT
                     !.chunks_data = chunks_data,
                     !.outcome =
                        IF \E i \in 1..Len(seen.candidates) :
                               /\ PassesFloor(seen.candidates[i][1])
                               /\ seen.candidates[i][2] >= Len(chunks_data)
                        THEN Raises(IndexRangeError)
                        ELSE ReturnsList(RankAndTruncate(
                                 CollectResults(seen.candidates, q, chunks_data),
                                 seen.top_k))]
    /\ search_pc' = "done"
    /\ UNCHANGED <<disk, op, op_pc, built, outcome, index, chunks_data>>
    /\ UNCHANGED otherStore

\* the caller of the second thread takes the outcome
ThreadReturn ==
    /\ search_pc = "done"
    /\ search_pc' = "idle" /\ seen' = NoSeen
    /\ UNCHANGED <<disk, op, op_pc, built, outcome, index, chunks_data>>
    /\ UNCHANGED otherStore

\* the process dies in the middle of a call; the next one constructs its
\* engine anew (line 38-39) over the directory as it was left
Crash ==
    /\ op_pc # "idle"
    /\ index' = NoIndex /\ chunks_data' = <<>>
    /\ op' = NoOp /\ op_pc' = "idle" /\ built' = <<>> /\ outcome' = NoOutcome
    /\ search_pc' = "idle" /\ seen' = NoSeen
    /\ UNCHANGED disk
    /\ UNCHANGED otherStore

InitStore == StoreInit /\ ScoreIdle /\ ChunkIdle /\ SectIdle /\ CorpusIdle /\ ParseIdle
NextStore ==
    \/ Preprocess \/ CallLoadIndex \/ CallInitialize
    \/ LoadIndexExists \/ LoadIndexReadIndex \/ LoadIndexReadMetadata
    \/ InitializeAfterLoad \/ InitializeLoadChunks \/ InitializeBuildIndex
    \/ InitializeSetChunksData \/ SaveIndexOpen \/ SaveIndexWrite
    \/ EngineSearch \/ ReturnToCaller
    \/ ThreadSearchIndex \/ ThreadSearchCollect \/ ThreadReturn
    \/ Crash
SpecStore == InitStore /\ [][NextStore]_vars

\* ------------------------------------------------------------------ claims on the persisted index

\* no build (line 165-166, of a non-empty chunk list) and no load (line 97-99,
\* of the files a build wrote) has run to its end in this engine: each of them
\* leaves an index and a non-empty chunks_data, and neither is ever taken away
NotReady == ~index.loaded \/ chunks_data = <<>>

\* C19: in every engine state in which no index build or load has completed
\* successfully, search fails with the "Index not loaded" error and returns no
\* results.
C19_SearchBeforeReady ==
    [][EngineSearch /\ NotReady => outcome' = Raises(NotLoadedError)]_vars

ArtifactsComplete == \A i \in 1..Len(Artifacts) : disk[Artifacts[i]].state = "complete"

InstalledBoth ==
    /\ index = BuildIndex(disk.index.data)
    /\ chunks_data = disk.metadata.data

EngineUnchanged == index = op.index /\ chunks_data = op.chunks_data

\* C20: when load_index is back, it returned true only with both the index and
\* the chunk list installed from a complete artifact set; with any artifact
\* missing or partial it returned false, raised nothing and left index and
\* chunks_data as they were; it installed both or none.
C20_LoadAllOrNothing ==
    op_pc = "load_returned" =>
        /\ outcome = Returns("True") => ArtifactsComplete /\ InstalledBoth
        /\ ~ArtifactsComplete => outcome = Returns("False") /\ EngineUnchanged
        /\ InstalledBoth \/ EngineUnchanged

\* the three files were written by one build
OneBuild ==
    \A i, j \in 1..Len(Artifacts) : disk[Artifacts[i]].data = disk[Artifacts[j]].data

\* C21: whenever no call is running, and so after every crash in initialize or
\* save_index, a set of artifacts that load_index goes on to read (all three
\* exist) is a complete set written by one build: the previous one or the new
\* one, never files of different builds and never a file cut short.
C21_ReplaceOnSuccess ==
    op_pc = "idle" /\ AllExist => ArtifactsComplete /\ OneBuild

\* C22: between calls, whenever an index is set it has as many vectors as
\* chunks_data has chunks and vector i embeds chunks_data[i]; and no search ends
\* on a position outside chunks_data.
C22_IndexAligned ==
    /\ op_pc = "idle" /\ index.loaded =>
          index.ntotal = Len(chunks_data) /\ index.vectors = chunks_data
    /\ op_pc = "done" /\ op.name = "search" => outcome # Raises(IndexRangeError)

\* C23: a search that ran beside an initialize never read the index of one
\* build and the chunk list of another: the index it searched and the
\* chunks_data it indexed into belong together.
C23_SearchSeesOnePair ==
    search_pc = "done" /\ seen.index.loaded /\ seen.candidates # <<>> =>
        seen.index.vectors = seen.chunks_data

ChunkIdsOf(cs) == [i \in 1..Len(cs) |-> cs[i].chunk_id]

C25_InitializeFollowsCorpus ==
    op_pc = "done" /\ op.name = "initialize" /\ outcome = Returns("None") =>
        chunks_data = disk.corpus

\* the cue phrases of period type n, whatever their case
CuesOf(n) ==
    LET alts == PeriodPatterns[n][2]
    IN  [a \in 1..Len(alts) |-> [w \in 1..Len(alts[a]) |-> Lower(alts[a][w])]]

\* a cue phrase of period type n occurs in the question, as words of their own
CueOccurs(n, q) == ReSearch(CuesOf(n), Lower(q))

ExpectedPeriodType(q) ==
    LET found == {n \in 1..Len(PeriodPatterns) : CueOccurs(n, q)}
    IN  IF found = {} THEN None
        ELSE PeriodPatterns[CHOOSE n \in found : \A m \in found : n <= m][1]

\* C26: period_type is the first of annual, quarterly, recent, historical whose
\* cue phrase occurs in the question, and None when no cue phrase occurs.
C26_PeriodTypePriority ==
    \A r \in Intents :
        r.temporal_info.period_type = ExpectedPeriodType(r.original_query)

\* ------------------------------------------------------------------ preprocessing to search
\* The section name a chunk gets from extract_sections meets the section names
\* an intent gets from the taxonomy in score_metadata, line 110-114.

\* the section names extract_sections gives: the keys of section_patterns and
\* the name of the fallback (preprocessing.py:38-43, 70)
ChunkSectionNames == SectionNames \cup {"General Content"}

\* the characters of the section names of both sides
SectionSpelling ==
    << <<"Risk Factors",
          <<"R","i","s","k"," ","F","a","c","t","o","r","s">>>>,
       <<"Business",
          <<"B","u","s","i","n","e","s","s">>>>,
       <<"MD&A",
          <<"M","D","&","A">>>>,
       <<"Financial Statements",
          <<"F","i","n","a","n","c","i","a","l"," ","S","t","a","t","e","m","e","n","t","s">>>>,
       <<"Compensation",
          <<"C","o","m","p","e","n","s","a","t","i","o","n">>>>,
       <<"Executive Compensation",
          <<"E","x","e","c","u","t","i","v","e"," ","C","o","m","p","e","n","s","a","t","i","o","n">>>>,
       <<"General Content",
          <<"G","e","n","e","r","a","l"," ","C","o","n","t","e","n","t">>>>,
       <<"Item 1 - Business",
          <<"I","t","e","m"," ","1"," ","-"," ","B","u","s","i","n","e","s","s">>>>,
       <<"Item 7 - Management's Discussion",
          <<"I","t","e","m"," ","7"," ","-"," ","M","a","n","a","g","e","m","e","n","t","'","s"," ","D","i","s","c","u","s","s","i","o","n">>>>,
       <<"Item 8 - Financial Statements",
          <<"I","t","e","m"," ","8"," ","-"," ","F","i","n","a","n","c","i","a","l"," ","S","t","a","t","e","m","e","n","t","s">>>>,
       <<"Consolidated Statements of Operations",
          <<"C","o","n","s","o","l","i","d","a","t","e","d"," ","S","t","a","t","e","m","e","n","t","s"," ","o","f"," ","O","p","e","r","a","t","i","o","n","s">>>>,
       <<"Item 1A - Risk Factors",
          <<"I","t","e","m"," ","1","A"," ","-"," ","R","i","s","k"," ","F","a","c","t","o","r","s">>>>,
       <<"Item 7A - Quantitative and Qualitative Disclosures About Market Risk",
          <<"I","t","e","m"," ","7","A"," ","-"," ","Q","u","a","n","t","i","t","a","t","i","v","e"," ","a","n","d"," ","Q","u","a","l","i","t","a","t","i","v","e"," ","D","i","s","c","l","o","s","u","r","e","s"," ","A","b","o","u","t"," ","M","a","r","k","e","t"," ","R","i","s","k">>>>,
       <<"Consolidated Balance Sheets",
          <<"C","o","n","s","o","l","i","d","a","t","e","d"," ","B","a","l","a","n","c","e"," ","S","h","e","e","t","s">>>>,
       <<"Compensation Discussion and Analysis",
          <<"C","o","m","p","e","n","s","a","t","i","o","n"," ","D","i","s","c","u","s","s","i","o","n"," ","a","n","d"," ","A","n","a","l","y","s","i","s">>>>,
       <<"Executive Compensation Tables",
          <<"E","x","e","c","u","t","i","v","e"," ","C","o","m","p","e","n","s","a","t","i","o","n"," ","T","a","b","l","e","s">>>>,
       <<"Security Ownership of Certain Beneficial Owners",
          <<"S","e","c","u","r","i","t","y"," ","O","w","n","e","r","s","h","i","p"," ","o","f"," ","C","e","r","t","a","i","n"," ","B","e","n","e","f","i","c","i","a","l"," ","O","w","n","e","r","s">>>>,
       <<"Item 2 - Management's Discussion of Financial Condition",
          <<"I","t","e","m"," ","2"," ","-"," ","M","a","n","a","g","e","m","e","n","t","'","s"," ","D","i","s","c","u","s","s","i","o","n"," ","o","f"," ","F","i","n","a","n","c","i","a","l"," ","C","o","n","d","i","t","i","o","n">>>>,
       <<"Business Combinations",
          <<"B","u","s","i","n","e","s","s"," ","C","o","m","b","i","n","a","t","i","o","n","s">>>> >>

CharsOf(name) ==
    (CHOOSE p \in Range(SectionSpelling) : p[1] = name)[2]

\* the chunk dicts process_file produces, as score_metadata reads them
PipelineChunks ==
    {[ticker |-> t, filing_type |-> f, section |-> CharsOf(s), financial_concepts |-> cs] :
        t \in {"AAPL"}, f \in {"10-K", "DEF 14A"}, s \in ChunkSectionNames, cs \in ConceptLists}

\* questions naming a company, a concept of the taxonomy by its first keyword,
\* or both; and one naming two concepts
PipelineQueries ==
    LET kws == {Taxonomy[i].keywords[1] : i \in 1..Len(Taxonomy)}
    IN  {<<>>, Join(<<Taxonomy[1].keywords[1], Taxonomy[2].keywords[1]>>)}
          \cup kws \cup {Join(<<Companies[1].symbol, kw>>) : kw \in kws}

\* the intent parse_query returns, as score_metadata reads it (line 125, 138)
IntentOf(q, seed) ==
    LET r == ParseQuery(q, seed)
    IN  [tickers |-> r.tickers, filing_types |-> r.filing_types,
         relevant_sections |->
            [i \in 1..Len(r.relevant_sections) |-> CharsOf(r.relevant_sections[i])],
         financial_concepts |-> r.financial_concepts]

PipelineIntents == {IntentOf(q, seed) : q \in PipelineQueries, seed \in HashSeeds}

InitPipeline ==
    /\ chunk \in PipelineChunks
    /\ query_info \in PipelineIntents
    /\ score = NoScore
    /\ score_pc = "call"
    /\ EngineIdle /\ ChunkIdle /\ SectIdle /\ OthersIdle
SpecPipeline == InitPipeline /\ [][NextScore]_vars

\* ------------------------------------------------------------------ claims on preprocessing to search

\* C27: for every chunk of process_file and every intent of parse_query, no
\* relevant-section name of the intent is contained in the chunk's section
\* name, the section loop adds nothing, and the metadata score is at most
\* 0.6 plus 0.1 for every shared concept.
C27_NoSectionBonus ==
    score_pc = "returned" =>
        /\ \A i \in 1..Len(query_info.relevant_sections) :
               ~IsSubstring(Lower(query_info.relevant_sections[i]), Lower(chunk.section))
        /\ SectionStep(0, chunk, query_info) = 0
        /\ score <= BaselineScore + TickerBonus + FilingTypeBonus
                      + ConceptBonus * Cardinality(SharedConcepts(chunk, query_info))

\* a Business chunk scored for an intent that lists "Item 1 - Business", with
\* ticker, filing type and one concept shared
C27_Witness ==
    /\ score_pc = "returned"
    /\ chunk.section = CharsOf("Business")
    /\ CharsOf("Item 1 - Business") \in Range(query_info.relevant_sections)
    /\ Cardinality(SharedConcepts(chunk, query_info)) = 1
    /\ score = BaselineScore + TickerBonus + FilingTypeBonus + ConceptBonus

============================================================================
